---- MODULE Spec2Model ----
(***************************************************************************)
(* Model of the step sequencing engine of vscode-input:                    *)
(* handleMultiStepInput / handleInputStep / handleGoingBack                *)
(* (src/src/handleMultiStepInput.ts, linked-list revision, lines 131-301)  *)
(* together with DialogValues.addValue (src/unnamed/part_008).             *)
(*                                                                         *)
(* One action per synchronous stretch of the async engine: the stretch     *)
(* from the loop head to the awaited showDialog (or through a skipped      *)
(* step), the stretch that runs once showDialog has resolved, and the      *)
(* final return.                                                           *)
(***************************************************************************)
EXTENDS Integers, Sequences, FiniteSets, Bags, TLC

\* ------------------------------------------------------------------ bounds
\* largest number of inputs handed to handleMultiStepInput
MaxSteps == 3
\* largest number of showDialog calls followed in one run
MaxShown == 5

\* a LoadingQuickPick is reloaded at most MaxReloads times
MaxReloads == 2

\* at most MaxPending calls of the validateInput callback of one InputBox are
\* awaited at the same time
MaxPending == 3

\* ------------------------------------------------------- values and inputs
\* the names given to the inputs by position; one input of a list may carry
\* the empty name instead (names stay unique within one list)
StepNames == <<"a", "b", "c", "d">>

\* what showDialog can resolve to: string | string[] | boolean | undefined | InputAction.BACK
Undefined == [kind |-> "undefined"]
Str(s) == [kind |-> "string", s |-> s]
Arr(a) == [kind |-> "array", a |-> a]
Bool(b) == [kind |-> "boolean", b |-> b]

\* enum InputAction { BACK = "BACK" }: a string enum, so the member IS the string "BACK"
InputActionBACK == Str("BACK")

\* the answers the modelled user gives
Answers == {Str("x"), Arr(<<"y", "z">>)}

\* answers that are falsy or empty: an InputBox accepted without text, a
\* QuickPick accepted without a selection, an input that resolves to false
BlankAnswers == {Str(""), Arr(<<>>), Bool(FALSE)}

\* !result, for what showDialog resolves to
FalsyResult(r) == r = Undefined \/ r = Str("") \/ r = Bool(FALSE)

\* onBeforeInput of an input:
\*   "none"       no callback configured
\*   "true"       () => true
\*   "false"      () => false
\*   "once"       a closure that returns true on its first call only
\*   "unanswered" (dialogValues) => !dialogValues.inputValues.has(name)
\*   "firstIsY"   (dialogValues) => dialogValues.inputValues.get(<name of the first input>)?.[0] === "y"
\*   "uriSet"     (dialogValues) => dialogValues.uri !== undefined
StaticPre == {"none", "true", "false"}
DynamicPre == {"once", "unanswered"}
HookPre == {"none", "uriSet"}
AnswerPre == {"none", "firstIsY"}

\* onAfterInput of an input:
\*   "none"  no callback configured
\*   "uri"   (dialogValues) => { dialogValues.uri = <the first element of the answer> }
NoPost == {"none"}
UriPost == {"none", "uri"}

\* the class of an input:
\*   "stub"          an input whose showDialog resolves to whatever the user does
\*   "confirmation"  a ConfirmationDialog
\*   "blank"         an input whose showDialog resolves to a falsy or empty answer
StubOnly == {"stub"}
WithConfirmation == {"stub", "confirmation"}
WithBlank == {"stub", "blank"}

\* what vscode.window.showInformationMessage resolves to: a MessageItem or undefined
NoItem == [kind |-> "undefined"]
Item(t) == [kind |-> "item", title |-> t]

\* inputOptions.confirmButtonName of the ConfirmationDialogs
ConfirmButtonName == "button"

\* the user picks the confirm button, picks the modal's other button, or dismisses
HostAnswers == {Item(ConfirmButtonName), Item("Cancel"), NoItem}

\* no host widget is involved (stubbed showDialog)
NoHost == [kind |-> "none"]

\* ---------------------------------------------------------------- state
VARIABLES
  title,        \* the title passed to handleMultiStepInput
  inputs,       \* the inputs passed to handleMultiStepInput (the LinkList's elements)
  passed,       \* TRUE iff the caller passed its own DialogValues object
  initial,      \* inputValues of dialogValues when the run started
  dialogValues, \* the DialogValues object: [uri, inputValues], inputValues in Map order
  currentStep,  \* the Step object of the loop: stepNumber, totalNumber, goingBackProcess
  takenSteps,   \* the stack of taken steps: stepNumber, totalNumber, name
  node,         \* position of the LinkList iterator: 1..Len(inputs), Len(inputs)+1 = header
  onceCalled,   \* positions whose "once" closure has already been called
  pc,           \* "loop" | "showDialog" | "returned" | "threw"
  result,       \* "pending" | "undefined" | "dialogValues": what the promise resolved to
  shown,        \* every showDialog call so far with its arguments
  outcomes,     \* what each finished showDialog call resolved to
  disposed,     \* number of input.dispose() calls so far
  effects,      \* what the last synchronous stretch did, in program order
  widget,       \* an input on its own: its options, the host's widget, its promise
  indexBased    \* a run of the index-based revision of handleMultiStepInput

vars == <<title, inputs, passed, initial, dialogValues, currentStep, takenSteps,
          node, onceCalled, pc, result, shown, outcomes, disposed, effects, widget,
          indexBased>>

\* the index-based revision of handleMultiStepInput has not been called
NotCalled == [pc |-> "none"]

\* one effect of a stretch: what was done, for which input, the DialogValues
\* object as it was when the effect began, and the value involved
Event(ev, name, dv, r) == [ev |-> ev, name |-> name, dv |-> dv, result |-> r]

\* ----------------------------------------------------- DialogValues.addValue
\* Map.has
MapHas(m, k) == \E i \in 1..Len(m) : m[i].key = k

\* Map.get (only used where the key is present)
MapGet(m, k) == m[CHOOSE i \in 1..Len(m) : m[i].key = k].val

\* variant: a list of entries instead of a map, every set adds an entry
MapSet_appends(m, k, v) == Append(m, [key |-> k, val |-> v])

\* Map.set: an existing key keeps its place in the iteration order, a new key goes last
MapSet(m, k, v) ==
  IF MapHas(m, k)
    THEN [i \in 1..Len(m) |-> IF m[i].key = k THEN [key |-> k, val |-> v] ELSE m[i]]
    ELSE Append(m, [key |-> k, val |-> v])

\* Boolean.prototype.toString
BoolToString(b) == IF b THEN "true" ELSE "false"

\* variant: of an array only the first element is taken over
Elements_firstOnly(r) ==
  IF r.kind = "string" THEN <<r.s>>
  ELSE IF r.kind = "array" THEN (IF Len(r.a) = 0 THEN <<>> ELSE <<r.a[1]>>)
  ELSE IF r.kind = "boolean" THEN <<BoolToString(r.b)>>
  ELSE <<>>

\* the elements array built by addValue
Elements(r) ==
  IF r.kind = "string" THEN <<r.s>>
  ELSE IF r.kind = "array" THEN [i \in 1..Len(r.a) |-> r.a[i]]
  ELSE IF r.kind = "boolean" THEN <<BoolToString(r.b)>>
  ELSE <<>>

\* variant: the revision before 1.0.4, a boolean is kept out of inputValues
addValue_oldRevision(dv, inputName, r) ==
  IF r.kind = "boolean" THEN dv
  ELSE [dv EXCEPT !.inputValues = MapSet(dv.inputValues, inputName, Elements(r))]

\* DialogValues.addValue: the elements are built from the result and set under the name
addValue(dv, inputName, r) ==
  [dv EXCEPT !.inputValues = MapSet(dv.inputValues, inputName, Elements(r))]

\* ------------------------------------------------------ generateStepOutput
\* variant: the two numbers change places
generateStepOutput_swapped(t, cur, max) ==
  t \o " (Step " \o ToString(max) \o " of " \o ToString(cur) \o ")"

generateStepOutput(t, cur, max) ==
  t \o " (Step " \o ToString(cur) \o " of " \o ToString(max) \o ")"

\* variant: the back button is offered at every step
showBackButton_always(cur) == TRUE

\* the third argument of showDialog: currentStep.stepNumber !== 1
showBackButton(cur) == cur.stepNumber # 1

\* variant: the total is never counted down for a skipped input
CountDown_never(cur) == cur

\* lines 215-218: an input that is not needed counts the total down, unless going back
CountDown(cur) ==
  IF ~cur.goingBackProcess
    THEN [cur EXCEPT !.totalNumber = @ - 1]
    ELSE cur

\* ------------------------------------------------------------ onBeforeInput
\* variant: the callback is tested for presence instead of being called
BeforeInput_notCalled(i, dv, called) == TRUE

\* input.inputOptions.onBeforeInput?.(dialogValues) ?? true, for the input at position i
BeforeInput(i, dv, called) ==
  LET p == inputs[i].pre IN
  IF p = "none" THEN TRUE
  ELSE IF p = "true" THEN TRUE
  ELSE IF p = "false" THEN FALSE
  ELSE IF p = "once" THEN i \notin called
  ELSE IF p = "uriSet" THEN dv.uri # "undefined"
  ELSE IF p = "firstIsY"
    THEN /\ MapHas(dv.inputValues, inputs[1].name)
         /\ Len(MapGet(dv.inputValues, inputs[1].name)) > 0
         /\ MapGet(dv.inputValues, inputs[1].name)[1] = "y"
  ELSE ~MapHas(dv.inputValues, inputs[i].name)

\* the memory of the closures after the call
AfterBeforeInput(i, called) ==
  IF inputs[i].pre = "once" THEN called \cup {i} ELSE called

\* ------------------------------------------------------------- onAfterInput
\* input.inputOptions.onAfterInput?.(dialogValues), for the input at position i
\*   "uri": (dialogValues) => { dialogValues.uri = dialogValues.inputValues.get(name)?.[0] }
AfterInput(i, dv) ==
  IF inputs[i].post = "uri"
    THEN [dv EXCEPT !.uri =
            IF MapHas(dv.inputValues, inputs[i].name)
               /\ Len(MapGet(dv.inputValues, inputs[i].name)) > 0
              THEN MapGet(dv.inputValues, inputs[i].name)[1]
              ELSE "undefined"]
    ELSE dv

\* ---------------------------------------------------------- handleGoingBack
\* the while loop of handleGoingBack: iterator.pre() until the element's name is
\* the wanted one; 0 stands for the RangeError pre() throws in front of the first element
RECURSIVE WalkBack(_, _)
WalkBack(n, name) ==
  IF inputs[n].name = name THEN n
  ELSE IF n = 1 THEN 0
  ELSE WalkBack(n - 1, name)

\* JavaScript truthiness of goToStep?.name
Truthy(name) == name # ""

\* variant: the step number is restored from the popped step, the total is not
handleGoingBack_keepsTotal(taken, cur, n) ==
  IF taken = <<>>
    THEN [step |-> cur, taken |-> taken, node |-> n]
    ELSE LET goToStep == taken[Len(taken)]
             rest == SubSeq(taken, 1, Len(taken) - 1)
         IN IF Truthy(goToStep.name)
              THEN [step |-> [stepNumber |-> goToStep.stepNumber,
                              totalNumber |-> cur.totalNumber,
                              goingBackProcess |-> TRUE],
                    taken |-> rest,
                    node |-> WalkBack(n, goToStep.name)]
              ELSE [step |-> cur, taken |-> rest, node |-> n]

\* result: the step returned, the stack after pop(), the iterator position
handleGoingBack(taken, cur, n) ==
  IF taken = <<>>
    THEN [step |-> cur, taken |-> taken, node |-> n]
    ELSE LET goToStep == taken[Len(taken)]
             rest == SubSeq(taken, 1, Len(taken) - 1)
         IN IF Truthy(goToStep.name)
              THEN [step |-> [stepNumber |-> goToStep.stepNumber,
                              totalNumber |-> goToStep.totalNumber,
                              goingBackProcess |-> TRUE],
                    taken |-> rest,
                    node |-> WalkBack(n, goToStep.name)]
              ELSE [step |-> cur, taken |-> rest, node |-> n]

\* variant: the iterator is not moved on behind an input
Continue_noNext(cur, taken, n) ==
  IF cur.goingBackProcess
    THEN LET b == handleGoingBack(taken, cur, n) IN
         /\ currentStep' = b.step
         /\ takenSteps' = b.taken
         /\ node' = b.node
         /\ pc' = IF b.node = 0 THEN "threw" ELSE "loop"
    ELSE /\ currentStep' = cur
         /\ takenSteps' = taken
         /\ node' = n
         /\ pc' = "loop"

\* the tail of handleInputStep (lines 220-227) and the loop's assignment of its result
Continue(cur, taken, n) ==
  IF cur.goingBackProcess
    THEN LET b == handleGoingBack(taken, cur, n) IN
         /\ currentStep' = b.step
         /\ takenSteps' = b.taken
         /\ node' = b.node
         /\ pc' = IF b.node = 0 THEN "threw" ELSE "loop"
    ELSE /\ currentStep' = cur
         /\ takenSteps' = taken
         /\ node' = n + 1
         /\ pc' = "loop"

\* ------------------------------------------- ConfirmationDialog.showDialog
\* variant: a confirmation that was not given resolves to false
ConfirmationShowDialog_false(h) ==
  IF h.kind = "item" /\ h.title = ConfirmButtonName THEN Bool(TRUE) ELSE Bool(FALSE)

\* answer?.title === confirmButtonName ? true : undefined, for the host's answer h
ConfirmationShowDialog(h) ==
  IF h.kind = "item" /\ h.title = ConfirmButtonName THEN Bool(TRUE) ELSE Undefined

\* what the awaited showDialog of the input at position i can resolve to, each
\* with the host's answer behind it
Resolutions(i) ==
  IF inputs[i].type = "confirmation"
    THEN { [host |-> h, result |-> ConfirmationShowDialog(h)] : h \in HostAnswers }
    ELSE IF inputs[i].type = "blank"
      THEN { [host |-> NoHost, result |-> r] : r \in {Undefined, InputActionBACK} \cup BlankAnswers }
    ELSE { [host |-> NoHost, result |-> r] : r \in {Undefined, InputActionBACK} \cup Answers }

\* the end of the await and line 189: the input is disposed on every path
Awaited(i, dv, res) ==
  (IF res.host # NoHost
     THEN <<Event("showInformationMessage", inputs[i].name, dv, res.host)>>
     ELSE <<>>)
  \o <<Event("resolved", inputs[i].name, dv, res.result),
       Event("dispose", inputs[i].name, dv, res.result)>>

\* variant: the hook is called before the answer is stored
RecordAnswer_hookFirst(i, dv, r) ==
  LET hooked == AfterInput(i, dv)
      stored == addValue(hooked, inputs[i].name, r)
  IN [dv |-> stored,
      events |-> (IF inputs[i].post # "none"
                    THEN <<Event("onAfterInput", inputs[i].name, dv, r)>>
                    ELSE <<>>)
                 \o <<Event("addValue", inputs[i].name, hooked, r),
                      Event("push", inputs[i].name, stored, r)>>]

\* lines 201-211: addValue, then onAfterInput if there is one, then the push
RecordAnswer(i, dv, r) ==
  LET stored == addValue(dv, inputs[i].name, r)
      hooked == AfterInput(i, stored)
  IN [dv |-> hooked,
      events |-> <<Event("addValue", inputs[i].name, dv, r)>>
                 \o (IF inputs[i].post # "none"
                       THEN <<Event("onAfterInput", inputs[i].name, stored, r)>>
                       ELSE <<>>)
                 \o <<Event("push", inputs[i].name, hooked, r)>>]

\* ------------------------------------------------------------------- Init
NamesWithEmptyAt(n, e) == [i \in 1..n |-> IF i = e THEN "" ELSE StepNames[i]]

InputLists(n, pres, posts, types) ==
  { [i \in 1..n |-> [name |-> names[i], pre |-> pre[i], post |-> post[i], type |-> type[i]]] :
      names \in { NamesWithEmptyAt(n, e) : e \in 0..n },
      pre \in [1..n -> pres],
      post \in [1..n -> posts],
      type \in [1..n -> types] }

NewDialogValues == [ref |-> "new", uri |-> "undefined", inputValues |-> <<>>]

\* the DialogValues objects a caller passes in
PassedDialogValues ==
  { [ref |-> "caller", uri |-> "file", inputValues |-> <<[key |-> "old", val |-> <<"o">>]>>],
    [ref |-> "caller", uri |-> "file", inputValues |-> <<[key |-> "a", val |-> <<"o">>]>>] }

\* the third argument left out
NoArgument == [kind |-> "undefined"]

\* variant: the entries of the caller's object are copied into a new object
OrNewDialogValues_copies(arg) ==
  IF arg = NoArgument THEN NewDialogValues
  ELSE [ref |-> "new", uri |-> arg.uri, inputValues |-> arg.inputValues]

\* line 136: dialogValues ?? new DialogValues()
OrNewDialogValues(arg) ==
  IF arg = NoArgument THEN NewDialogValues ELSE arg

InitWith(pres, posts, types) ==
  /\ title = "T"
  /\ \E n \in 0..MaxSteps : inputs \in InputLists(n, pres, posts, types)
  /\ \E arg \in {NoArgument} \cup PassedDialogValues :
       /\ passed = (arg # NoArgument)
       /\ dialogValues = OrNewDialogValues(arg)
  /\ initial = dialogValues.inputValues
  /\ currentStep = [stepNumber |-> 1, totalNumber |-> Len(inputs), goingBackProcess |-> FALSE]
  /\ takenSteps = <<>>
  /\ node = 1
  /\ onceCalled = {}
  /\ pc = "loop"
  /\ result = "pending"
  /\ shown = <<>>
  /\ outcomes = <<>>
  /\ disposed = 0
  /\ effects = <<>>
  /\ indexBased = NotCalled
  /\ widget = [kind |-> "none"]

\* runs over inputs with any of the onBeforeInput callbacks and no onAfterInput
Init == InitWith(StaticPre \cup DynamicPre, NoPost, StubOnly)

\* runs over inputs with static onBeforeInput callbacks only
InitStatic == InitWith(StaticPre, NoPost, StubOnly)

\* runs over inputs with onAfterInput callbacks that set the uri
InitHooks == InitWith(HookPre, UriPost, StubOnly)

\* runs over inputs whose onBeforeInput depends on the answer of the first input
InitAnswerPre == InitWith(AnswerPre, NoPost, StubOnly)

\* runs over lists that contain inputs with falsy or empty answers
InitBlank == InitWith({"none", "false"}, NoPost, WithBlank)

\* runs over lists that contain ConfirmationDialogs
InitConfirm == InitWith({"none", "false"}, NoPost, WithConfirmation)

\* ------------------------------------------------------------------ actions
\* handleInputStep, onBeforeInput true: showDialog is called and awaited
ShowDialog ==
  /\ pc = "loop"
  /\ node <= Len(inputs)
  /\ BeforeInput(node, dialogValues, onceCalled)
  /\ Len(shown) < MaxShown
  /\ onceCalled' = AfterBeforeInput(node, onceCalled)
  /\ shown' = Append(shown, [index |-> node,
                             name |-> inputs[node].name,
                             title |-> generateStepOutput(title, currentStep.stepNumber,
                                                          currentStep.totalNumber),
                             showBackButton |-> showBackButton(currentStep),
                             stepNumber |-> currentStep.stepNumber,
                             totalNumber |-> currentStep.totalNumber,
                             taken |-> Len(takenSteps),
                             steps |-> takenSteps,
                             values |-> dialogValues.inputValues])
  /\ effects' = <<Event("onBeforeInput", inputs[node].name, dialogValues, Bool(TRUE)),
                  Event("showDialog", inputs[node].name, dialogValues, NoHost)>>
  /\ pc' = "showDialog"
  /\ UNCHANGED <<indexBased, widget, title, inputs, passed, initial, dialogValues, currentStep, takenSteps,
                 node, result, outcomes, disposed>>

\* variant: an answer recorded earlier for an input that is skipped now is dropped
SkipInput_dropsAnswer ==
  /\ pc = "loop"
  /\ node <= Len(inputs)
  /\ ~BeforeInput(node, dialogValues, onceCalled)
  /\ onceCalled' = AfterBeforeInput(node, onceCalled)
  /\ effects' = <<Event("onBeforeInput", inputs[node].name, dialogValues, Bool(FALSE))>>
  /\ dialogValues' = [dialogValues EXCEPT !.inputValues =
                        SelectSeq(@, LAMBDA e : e.key # inputs[node].name)]
  /\ Continue(CountDown(currentStep), takenSteps, node)
  /\ UNCHANGED <<indexBased, widget, title, inputs, passed, initial, result, shown, outcomes, disposed>>

\* handleInputStep, onBeforeInput false: the input is skipped
SkipInput ==
  /\ pc = "loop"
  /\ node <= Len(inputs)
  /\ ~BeforeInput(node, dialogValues, onceCalled)
  /\ onceCalled' = AfterBeforeInput(node, onceCalled)
  /\ effects' = <<Event("onBeforeInput", inputs[node].name, dialogValues, Bool(FALSE))>>
  /\ Continue(CountDown(currentStep), takenSteps, node)
  /\ UNCHANGED <<indexBased, widget, title, inputs, passed, initial, dialogValues, result, shown, outcomes,
                 disposed>>

\* variant: the undefined result is not tested for and is recorded like an answer
ResolveCancelled_goesOn ==
  /\ pc = "showDialog"
  /\ \E res \in Resolutions(node) :
       /\ res.result = Undefined
       /\ outcomes' = Append(outcomes, res.result)
       /\ disposed' = disposed + 1
       /\ LET rec == RecordAnswer(node, dialogValues, res.result) IN
          /\ dialogValues' = rec.dv
          /\ effects' = Awaited(node, dialogValues, res) \o rec.events
  /\ Continue([currentStep EXCEPT !.goingBackProcess = FALSE, !.stepNumber = @ + 1],
              Append(takenSteps, [stepNumber |-> currentStep.stepNumber,
                                  totalNumber |-> currentStep.totalNumber,
                                  name |-> inputs[node].name]),
              node)
  /\ UNCHANGED <<indexBased, widget, title, inputs, passed, initial, onceCalled, result, shown>>

\* variant: the result is recorded before it is tested for undefined
ResolveCancelled_writes ==
  /\ pc = "showDialog"
  /\ \E res \in Resolutions(node) :
       /\ res.result = Undefined
       /\ outcomes' = Append(outcomes, res.result)
       /\ disposed' = disposed + 1
       /\ dialogValues' = addValue(dialogValues, inputs[node].name, res.result)
       /\ effects' = Awaited(node, dialogValues, res)
                     \o <<Event("addValue", inputs[node].name, dialogValues, res.result),
                          Event("return", inputs[node].name, dialogValues', Undefined)>>
  /\ pc' = "returned"
  /\ result' = "undefined"
  /\ UNCHANGED <<indexBased, widget, title, inputs, passed, initial, currentStep, takenSteps,
                 node, onceCalled, shown>>

\* variant: the cancelled input is left undisposed
ResolveCancelled_noDispose ==
  /\ pc = "showDialog"
  /\ \E res \in Resolutions(node) :
       /\ res.result = Undefined
       /\ outcomes' = Append(outcomes, res.result)
       /\ effects' = <<Event("resolved", inputs[node].name, dialogValues, res.result),
                       Event("return", inputs[node].name, dialogValues, Undefined)>>
  /\ pc' = "returned"
  /\ result' = "undefined"
  /\ UNCHANGED <<indexBased, widget, title, inputs, passed, initial, dialogValues, currentStep, takenSteps,
                 node, onceCalled, shown, disposed>>

\* variant: every falsy result is taken for a cancellation
ResolveCancelled_falsy ==
  /\ pc = "showDialog"
  /\ \E res \in Resolutions(node) :
       /\ FalsyResult(res.result)
       /\ outcomes' = Append(outcomes, res.result)
       /\ effects' = Awaited(node, dialogValues, res)
                     \o <<Event("return", inputs[node].name, dialogValues, Undefined)>>
  /\ disposed' = disposed + 1
  /\ pc' = "returned"
  /\ result' = "undefined"
  /\ UNCHANGED <<indexBased, widget, title, inputs, passed, initial, dialogValues, currentStep, takenSteps,
                 node, onceCalled, shown>>

\* showDialog resolved to undefined: the input is disposed, the cancellation is
\* logged (the logger has been initialised, as initializeLogger requires) and
\* the run returns undefined
ResolveCancelled ==
  /\ pc = "showDialog"
  /\ \E res \in Resolutions(node) :
       /\ res.result = Undefined
       /\ outcomes' = Append(outcomes, res.result)
       /\ effects' = Awaited(node, dialogValues, res)
                     \o <<Event("return", inputs[node].name, dialogValues, Undefined)>>
  /\ disposed' = disposed + 1
  /\ pc' = "returned"
  /\ result' = "undefined"
  /\ UNCHANGED <<indexBased, widget, title, inputs, passed, initial, dialogValues, currentStep, takenSteps,
                 node, onceCalled, shown>>

\* showDialog resolved to InputAction.BACK
ResolveBack ==
  /\ pc = "showDialog"
  /\ \E res \in Resolutions(node) :
       /\ res.result = InputActionBACK
       /\ outcomes' = Append(outcomes, res.result)
       /\ effects' = Awaited(node, dialogValues, res)
  /\ disposed' = disposed + 1
  /\ LET b == handleGoingBack(takenSteps, currentStep, node) IN
     /\ currentStep' = b.step
     /\ takenSteps' = b.taken
     /\ node' = b.node
     /\ pc' = IF b.node = 0 THEN "threw" ELSE "loop"
  /\ UNCHANGED <<indexBased, widget, title, inputs, passed, initial, dialogValues, onceCalled, result, shown>>

\* showDialog resolved to a value
ResolveAnswer ==
  /\ pc = "showDialog"
  /\ \E res \in Resolutions(node) :
       /\ res.result # Undefined
       /\ res.result # InputActionBACK
       /\ outcomes' = Append(outcomes, res.result)
       /\ LET rec == RecordAnswer(node, dialogValues, res.result) IN
          /\ dialogValues' = rec.dv
          /\ effects' = Awaited(node, dialogValues, res) \o rec.events
  /\ disposed' = disposed + 1
  /\ LET pushed == Append(takenSteps, [stepNumber |-> currentStep.stepNumber,
                                       totalNumber |-> currentStep.totalNumber,
                                       name |-> inputs[node].name])
         cur == [currentStep EXCEPT !.goingBackProcess = FALSE,
                                    !.stepNumber = @ + 1]
     IN Continue(cur, pushed, node)
  /\ UNCHANGED <<indexBased, widget, title, inputs, passed, initial, onceCalled, result, shown>>

\* variant: an empty list of inputs is treated like a cancellation
ReturnValues_nothingForEmpty ==
  /\ pc = "loop"
  /\ node = Len(inputs) + 1
  /\ pc' = "returned"
  /\ result' = IF Len(inputs) = 0 THEN "undefined" ELSE "dialogValues"
  /\ effects' = <<Event("return", "", dialogValues, NoHost)>>
  /\ UNCHANGED <<indexBased, widget, title, inputs, passed, initial, dialogValues, currentStep, takenSteps,
                 node, onceCalled, shown, outcomes, disposed>>

\* the iterator is no longer accessible: the run returns dialogValues
ReturnValues ==
  /\ pc = "loop"
  /\ node = Len(inputs) + 1
  /\ pc' = "returned"
  /\ result' = "dialogValues"
  /\ effects' = <<Event("return", "", dialogValues, NoHost)>>
  /\ UNCHANGED <<indexBased, widget, title, inputs, passed, initial, dialogValues, currentStep, takenSteps,
                 node, onceCalled, shown, outcomes, disposed>>

Next ==
  \/ ShowDialog
  \/ SkipInput
  \/ ResolveCancelled
  \/ ResolveBack
  \/ ResolveAnswer
  \/ ReturnValues

Spec == Init /\ [][Next]_vars

\* the loop goes on while it can, and the user answers every dialog that is
\* shown
Fairness == WF_vars(Next)

SpecFair == Spec /\ Fairness

SpecStatic == InitStatic /\ [][Next]_vars

SpecHooks == InitHooks /\ [][Next]_vars

SpecConfirm == InitConfirm /\ [][Next]_vars

SpecAnswerPre == InitAnswerPre /\ [][Next]_vars

SpecBlank == InitBlank /\ [][Next]_vars

\* -------------------------------------------- addValue called on its own
\* the names and values DialogValues.addValue is called with
AddValueNames == {"a", "b"}
AddValueValues ==
  {Str("x"), Str(""), Arr(<<>>), Arr(<<"y", "z">>), Bool(TRUE), Bool(FALSE)}

InitAddValue ==
  /\ title = "T"
  /\ inputs = <<>>
  /\ passed = FALSE
  /\ dialogValues = NewDialogValues
  /\ initial = <<>>
  /\ currentStep = [stepNumber |-> 1, totalNumber |-> 0, goingBackProcess |-> FALSE]
  /\ takenSteps = <<>>
  /\ node = 1
  /\ onceCalled = {}
  /\ pc = "addValue"
  /\ result = "pending"
  /\ shown = <<>>
  /\ outcomes = <<>>
  /\ disposed = 0
  /\ effects = <<>>
  /\ indexBased = NotCalled
  /\ widget = [kind |-> "none"]

\* dialogValues.addValue(name, r) called by a caller or a test
CallAddValue ==
  /\ pc = "addValue"
  /\ \E name \in AddValueNames, r \in AddValueValues :
       /\ dialogValues' = addValue(dialogValues, name, r)
       /\ effects' = <<Event("addValue", name, dialogValues, r)>>
  /\ UNCHANGED <<indexBased, widget, title, inputs, passed, initial, currentStep, takenSteps, node,
                 onceCalled, pc, result, shown, outcomes, disposed>>

NextAddValue == CallAddValue

SpecAddValue == InitAddValue /\ [][NextAddValue]_vars

TypeOK ==
  /\ pc \in {"loop", "showDialog", "returned", "threw", "rejected", "addValue", "widget",
            "openDialog"}
  /\ result \in {"pending", "undefined", "dialogValues"}
  /\ node \in 0..(Len(inputs) + 1)
  /\ Len(shown) <= MaxShown

\* ----------------------------------------------------------------- adapters
\* showDialog of InputBox, QuickPick and LoadingQuickPick called on its own:
\* the widget of the host, the user acting on it and the callbacks of the
\* options are part of the model.  A button, an accept and a change of the
\* value reach the adapter only while the widget is visible and enabled and
\* the listeners are registered; a hide needs the widget to be visible only.

\* the name of the input
InputName == "Unit"

\* the texts a user types into an InputBox
Texts == {"", "foo", "bar", "BACK"}

\* the placeHolder of the inputBoxOptions
PlaceHolder == "My placeholder"

\* the validateInput callback of the inputBoxOptions:
\* (pValue) => (pValue === "foo" ? "Invalid" : undefined)
validateInput(text) == IF text = "foo" THEN Str("Invalid") ELSE Undefined

\* !v for what validateInput returns
Falsy(v) == v = Undefined \/ v = Str("")

\* the labels of the items generateItems and reloadItems return
GeneratedItems == <<"normal item", "Item 1">>
ReloadedItems == <<"reload item">>

\* the placeholder while loading, and the one generatePlaceHolder makes of
\* the options
LoadingPlaceholder == "Please wait, loading is in progress. This might take a while."
generatePlaceHolder == "placeHolder"

\* the promise returned by showDialog before it is settled, and after it rejected
Pending == [kind |-> "pending"]
Rejected == [kind |-> "rejected"]

\* no adapter is under consideration
NoWidget == [kind |-> "none"]

\* the input, its options and what showDialog has made of the widget so far
NewWidget(kind, back, many, reloadFn, validate, custom) ==
  [kind |-> kind,
   showBackButton |-> back,
   allowMultiple |-> many,
   reloadItems |-> reloadFn,
   validateInput |-> validate,
   customButton |-> custom,
   phase |-> "call",
   created |-> 0,
   visible |-> FALSE,
   disposed |-> FALSE,
   listeners |-> FALSE,
   busy |-> FALSE,
   enabled |-> TRUE,
   items |-> <<>>,
   buttons |-> <<>>,
   placeholder |-> "",
   value |-> "",
   validationMessage |-> Undefined,
   validating |-> EmptyBag,
   accepting |-> EmptyBag,
   reload |-> "idle",
   reloads |-> 0,
   loadFunction |-> "none",
   outcome |-> Pending,
   cause |-> "none",
   userHid |-> FALSE]

Widgets ==
  { NewWidget("InputBox", back, FALSE, FALSE, validate, custom) :
      back \in BOOLEAN, validate \in BOOLEAN, custom \in BOOLEAN }
  \cup { NewWidget("QuickPick", back, many, FALSE, FALSE, FALSE) :
           back \in BOOLEAN, many \in BOOLEAN }
  \cup { NewWidget("LoadingQuickPick", back, many, reloadFn, FALSE, FALSE) :
           back \in BOOLEAN, many \in BOOLEAN, reloadFn \in BOOLEAN }

\* the currentResults showDialog is called with
WidgetDialogValues ==
  { NewDialogValues,
    [ref |-> "new", uri |-> "undefined",
     inputValues |-> <<[key |-> InputName, val |-> <<"bar">>]>>] }

\* the variables of handleMultiStepInput, which an adapter on its own leaves alone
engineVars == <<title, inputs, passed, initial, dialogValues, currentStep, takenSteps,
                node, onceCalled, pc, result, shown, outcomes, disposed, indexBased>>

InitWidgets ==
  /\ title = "T"
  /\ inputs = <<>>
  /\ passed = FALSE
  /\ dialogValues \in WidgetDialogValues
  /\ initial = dialogValues.inputValues
  /\ currentStep = [stepNumber |-> 1, totalNumber |-> 0, goingBackProcess |-> FALSE]
  /\ takenSteps = <<>>
  /\ node = 1
  /\ onceCalled = {}
  /\ pc = "widget"
  /\ result = "pending"
  /\ shown = <<>>
  /\ outcomes = <<>>
  /\ disposed = 0
  /\ effects = <<>>
  /\ indexBased = NotCalled
  /\ widget \in Widgets

\* one update of the widget or one call, as an effect
WSet(prop, v) == Event(prop, InputName, dialogValues, v)

\* resolve(r): settles the promise unless it is settled already
Resolve(w, r, cause) ==
  IF w.outcome = Pending THEN [w EXCEPT !.outcome = r, !.cause = cause] ELSE w

\* the user can act on the widget and the adapter listens
Interactive(w) == w.listeners /\ w.visible /\ w.enabled

\* what selectedItems can hold when the user accepts
RECURSIVE SubSeqs(_)
SubSeqs(s) ==
  IF s = <<>> THEN {<<>>}
  ELSE LET rest == SubSeqs(Tail(s)) IN rest \cup { <<Head(s)>> \o r : r \in rest }

\* quickPick.selectedItems when the user accepts: any selection under
\* canSelectMany, otherwise one item or none
Selections(items, many) ==
  IF many THEN SubSeqs(items)
  ELSE {<<>>} \cup { <<items[i]>> : i \in 1..Len(items) }

\* ----------------------------------------------------------------- InputBox
\* inputValues.get(name)?.[0] ?? options.value ?? "", without a value in the options
InitialValue(dv) ==
  IF MapHas(dv.inputValues, InputName) /\ Len(MapGet(dv.inputValues, InputName)) > 0
    THEN MapGet(dv.inputValues, InputName)[1]
    ELSE ""

\* the buttons of the input box
InputBoxButtons(w) ==
  (IF w.showBackButton THEN <<"Back">> ELSE <<>>)
  \o (IF w.customButton THEN <<"Custom">> ELSE <<>>)

\* InputBox.showDialog up to the returned promise: the box is created, filled
\* (value, placeholder, buttons), given its listeners and shown
InputBoxShowDialog ==
  /\ pc = "widget"
  /\ widget.kind = "InputBox"
  /\ widget.phase = "call"
  /\ widget' = [widget EXCEPT !.phase = "shown",
                              !.created = @ + 1,
                              !.value = InitialValue(dialogValues),
                              !.placeholder = PlaceHolder,
                              !.buttons = InputBoxButtons(widget),
                              !.listeners = TRUE,
                              !.visible = TRUE]
  /\ effects' = <<WSet("createInputBox", Undefined),
                  WSet("value", Str(InitialValue(dialogValues))),
                  WSet("placeholder", Str(PlaceHolder)),
                  WSet("buttons", Arr(InputBoxButtons(widget))),
                  WSet("show", Undefined)>>
  /\ UNCHANGED engineVars

\* onDidChangeValue: the user changes the text and one more call of
\* validateInput is awaited, also if a call for the same text is still awaited
InputBoxChangeValue ==
  /\ pc = "widget"
  /\ widget.kind = "InputBox"
  /\ Interactive(widget)
  /\ BagCardinality(widget.validating) + BagCardinality(widget.accepting) < MaxPending
  /\ \E text \in Texts \ {widget.value} :
       /\ widget' = [widget EXCEPT !.value = text,
                                   !.validating = IF widget.validateInput
                                                    THEN @ (+) SetToBag({text}) ELSE @]
       /\ effects' = <<WSet("onDidChangeValue", Str(text))>>
  /\ UNCHANGED engineVars

\* one awaited validateInput of a changed text has returned (the callback may
\* return a Thenable, so the calls return in any order): the validation
\* message is set
InputBoxValidated ==
  /\ pc = "widget"
  /\ widget.kind = "InputBox"
  /\ \E text \in BagToSet(widget.validating) :
       LET m == validateInput(text)
           shownMessage == IF Falsy(m) THEN Undefined ELSE m
       IN /\ widget' = [widget EXCEPT !.validating = @ (-) SetToBag({text}),
                                      !.validationMessage = shownMessage]
          /\ effects' = <<WSet("validationMessage", shownMessage)>>
  /\ UNCHANGED engineVars

\* onDidAccept: without validateInput the value is resolved, with it the
\* value is handed to validateInput first
InputBoxAccept ==
  /\ pc = "widget"
  /\ widget.kind = "InputBox"
  /\ Interactive(widget)
  /\ BagCardinality(widget.validating) + BagCardinality(widget.accepting) < MaxPending
  /\ widget' = IF widget.validateInput
                 THEN [widget EXCEPT !.accepting = @ (+) SetToBag({widget.value})]
                 ELSE Resolve(widget, Str(widget.value), "accept")
  /\ effects' = <<WSet("onDidAccept", Str(widget.value))>>
  /\ UNCHANGED engineVars

\* variant: the accepted value is resolved whatever validateInput returns
InputBoxAccepted_ignoresMessage ==
  /\ pc = "widget"
  /\ widget.kind = "InputBox"
  /\ \E v \in BagToSet(widget.accepting) :
       /\ widget' = Resolve([widget EXCEPT !.accepting = @ (-) SetToBag({v})], Str(v), "accept")
       /\ effects' = <<WSet("validateInput", validateInput(v))>>
  /\ UNCHANGED engineVars

\* validateInput of an accepted value has returned: the value is resolved if
\* nothing was returned
InputBoxAccepted ==
  /\ pc = "widget"
  /\ widget.kind = "InputBox"
  /\ \E v \in BagToSet(widget.accepting) :
       /\ widget' = IF Falsy(validateInput(v))
                      THEN Resolve([widget EXCEPT !.accepting = @ (-) SetToBag({v})], Str(v), "accept")
                      ELSE [widget EXCEPT !.accepting = @ (-) SetToBag({v})]
       /\ effects' = <<WSet("validateInput", validateInput(v))>>
  /\ UNCHANGED engineVars

\* onDidTriggerButton with the custom button: its action is called
TriggerCustom ==
  /\ pc = "widget"
  /\ widget.kind = "InputBox"
  /\ Interactive(widget)
  /\ \E i \in 1..Len(widget.buttons) : widget.buttons[i] = "Custom"
  /\ effects' = <<WSet("customButton.action", Undefined)>>
  /\ effects' # effects
  /\ UNCHANGED widget
  /\ UNCHANGED engineVars

\* ------------------------------------------------- all three: back, hide, dispose
\* onDidTriggerButton with QuickInputButtons.Back
TriggerBack ==
  /\ pc = "widget"
  /\ Interactive(widget)
  /\ \E i \in 1..Len(widget.buttons) : widget.buttons[i] = "Back"
  /\ widget' = Resolve(widget, InputActionBACK, "Back")
  /\ effects' = <<WSet("onDidTriggerButton", Str("Back"))>>
  /\ UNCHANGED engineVars

\* the user dismisses the widget: onDidHide fires for the listeners there are
Hide ==
  /\ pc = "widget"
  /\ widget.visible
  /\ LET hidden == [widget EXCEPT !.visible = FALSE, !.userHid = TRUE] IN
     widget' = IF widget.listeners THEN Resolve(hidden, Undefined, "hide") ELSE hidden
  /\ effects' = <<WSet("onDidHide", Bool(widget.listeners))>>
  /\ UNCHANGED engineVars

\* input.dispose(), called by handleInputStep once showDialog has resolved
Dispose ==
  /\ pc = "widget"
  /\ widget.phase = "shown"
  /\ widget.outcome # Pending
  /\ ~widget.disposed
  /\ widget' = [widget EXCEPT !.disposed = TRUE, !.listeners = FALSE, !.visible = FALSE]
  /\ effects' = <<WSet("dispose", Undefined)>>
  /\ UNCHANGED engineVars

\* onDidAccept of a quick pick: the labels of the selected items are resolved
AcceptItems ==
  /\ pc = "widget"
  /\ widget.kind \in {"QuickPick", "LoadingQuickPick"}
  /\ Interactive(widget)
  /\ \E sel \in Selections(widget.items, widget.allowMultiple) :
       /\ widget' = Resolve(widget, Arr(sel), "accept")
       /\ effects' = <<WSet("onDidAccept", Arr(sel))>>
  /\ UNCHANGED engineVars

\* the awaited generateItems of showDialog rejects: showDialog rejects
LoadFailed ==
  /\ pc = "widget"
  /\ widget.kind \in {"QuickPick", "LoadingQuickPick"}
  /\ widget.phase = "loading"
  /\ widget' = [widget EXCEPT !.phase = "failed", !.outcome = Rejected]
  /\ effects' = <<WSet("reject", Undefined)>>
  /\ UNCHANGED engineVars

\* ---------------------------------------------------------------- QuickPick
\* QuickPick.showDialog up to the await of loadItems
QuickPickShowDialog ==
  /\ pc = "widget"
  /\ widget.kind = "QuickPick"
  /\ widget.phase = "call"
  /\ widget' = [widget EXCEPT !.phase = "loading", !.loadFunction = "generateItems"]
  /\ effects' = <<WSet("loadItems", Str("generateItems"))>>
  /\ UNCHANGED engineVars

\* the items are there: the quick pick is created, filled, given its
\* listeners and shown; buttons is assigned only when the back button is shown
QuickPickLoaded ==
  /\ pc = "widget"
  /\ widget.kind = "QuickPick"
  /\ widget.phase = "loading"
  /\ widget' = [widget EXCEPT !.phase = "shown",
                              !.created = @ + 1,
                              !.placeholder = generatePlaceHolder,
                              !.items = GeneratedItems,
                              !.buttons = IF widget.showBackButton THEN <<"Back">> ELSE @,
                              !.listeners = TRUE,
                              !.visible = TRUE]
  /\ effects' = <<WSet("createQuickPick", Undefined),
                  WSet("placeholder", Str(generatePlaceHolder)),
                  WSet("items", Arr(GeneratedItems))>>
                 \o (IF widget.showBackButton
                       THEN <<WSet("buttons", Arr(<<"Back">>))>> ELSE <<>>)
                 \o <<WSet("show", Undefined)>>
  /\ UNCHANGED engineVars

\* --------------------------------------------------------- LoadingQuickPick
\* variant: the quick pick is marked busy but stays enabled
prepareLoading_staysEnabled(w) ==
  [w |-> [w EXCEPT !.placeholder = LoadingPlaceholder, !.busy = TRUE],
   events |-> <<WSet("placeholder", Str(LoadingPlaceholder)),
                WSet("busy", Bool(TRUE))>>]

\* prepareLoading: blocks the quick pick for loading
prepareLoading(w) ==
  [w |-> [w EXCEPT !.placeholder = LoadingPlaceholder, !.busy = TRUE, !.enabled = FALSE],
   events |-> <<WSet("placeholder", Str(LoadingPlaceholder)),
                WSet("busy", Bool(TRUE)),
                WSet("enabled", Bool(FALSE))>>]

\* handlePostLoading: enables the quick pick and sets the loaded items; the
\* selection that setSelectedItems restores is the user's to change and is
\* chosen when the user accepts
handlePostLoading(w, items) ==
  [w |-> [w EXCEPT !.placeholder = generatePlaceHolder,
                   !.busy = FALSE,
                   !.enabled = TRUE,
                   !.items = items],
   events |-> <<WSet("placeholder", Str(generatePlaceHolder)),
                WSet("busy", Bool(FALSE)),
                WSet("enabled", Bool(TRUE)),
                WSet("items", Arr(items))>>]

\* the items a load function returns
ItemsOf(fn) == IF fn = "reloadItems" THEN ReloadedItems ELSE GeneratedItems

\* variant: a reload always calls generateItems
ReloadFunction_generateItems(w) == "generateItems"

\* this.inputOptions.reloadItems ?? this.inputOptions.generateItems
ReloadFunction(w) == IF w.reloadItems THEN "reloadItems" ELSE "generateItems"

\* LoadingQuickPick.showDialog up to the await of loadItems: the quick pick
\* is created, blocked for loading and shown; no listener is registered yet
LoadingShowDialog ==
  /\ pc = "widget"
  /\ widget.kind = "LoadingQuickPick"
  /\ widget.phase = "call"
  /\ LET buttons == <<"Reload">> \o (IF widget.showBackButton THEN <<"Back">> ELSE <<>>)
         made == [widget EXCEPT !.phase = "loading",
                                !.created = @ + 1,
                                !.buttons = buttons,
                                !.visible = TRUE,
                                !.loadFunction = "generateItems"]
         blocked == prepareLoading(made)
     IN /\ widget' = blocked.w
        /\ effects' = <<WSet("createQuickPick", Undefined), WSet("buttons", Arr(buttons))>>
                      \o blocked.events
                      \o <<WSet("show", Undefined), WSet("loadItems", Str("generateItems"))>>
  /\ UNCHANGED engineVars

\* the awaited generateItems has returned: handlePostLoading, then the
\* promise with the listeners
LoadingLoaded ==
  /\ pc = "widget"
  /\ widget.kind = "LoadingQuickPick"
  /\ widget.phase = "loading"
  /\ LET loaded == handlePostLoading(widget, ItemsOf(widget.loadFunction)) IN
     /\ widget' = [loaded.w EXCEPT !.phase = "shown", !.listeners = TRUE]
     /\ effects' = loaded.events
  /\ UNCHANGED engineVars

\* onDidTriggerButton with the reload button: prepareLoading and the timeout
TriggerReload ==
  /\ pc = "widget"
  /\ widget.kind = "LoadingQuickPick"
  /\ Interactive(widget)
  /\ widget.reloads < MaxReloads
  /\ LET blocked == prepareLoading([widget EXCEPT !.reload = "timer", !.reloads = @ + 1]) IN
     /\ widget' = blocked.w
     /\ effects' = <<WSet("onDidTriggerButton", Str("Reload"))>> \o blocked.events
  /\ UNCHANGED engineVars

\* the timeout of the reload: loadItems is called with the reload function
ReloadTimeout ==
  /\ pc = "widget"
  /\ widget.kind = "LoadingQuickPick"
  /\ widget.reload = "timer"
  /\ widget' = [widget EXCEPT !.reload = "loading", !.loadFunction = ReloadFunction(widget)]
  /\ effects' = <<WSet("loadItems", Str(ReloadFunction(widget)))>>
  /\ UNCHANGED engineVars

\* the reload function has returned: handlePostLoading
ReloadLoaded ==
  /\ pc = "widget"
  /\ widget.kind = "LoadingQuickPick"
  /\ widget.reload = "loading"
  /\ LET loaded == handlePostLoading([widget EXCEPT !.reload = "idle"],
                                     ItemsOf(widget.loadFunction)) IN
     /\ widget' = loaded.w
     /\ effects' = <<WSet("loaded", Str(widget.loadFunction))>> \o loaded.events
  /\ UNCHANGED engineVars

\* the reload function has failed: the error is caught and logged
ReloadFailed ==
  /\ pc = "widget"
  /\ widget.kind = "LoadingQuickPick"
  /\ widget.reload = "loading"
  /\ widget' = [widget EXCEPT !.reload = "idle"]
  /\ effects' = <<WSet("failed", Str(widget.loadFunction)),
                  WSet("logger.error", Str("error loading the data"))>>
  /\ UNCHANGED engineVars

NextWidgets ==
  \/ InputBoxShowDialog
  \/ InputBoxChangeValue
  \/ InputBoxValidated
  \/ InputBoxAccept
  \/ InputBoxAccepted
  \/ TriggerCustom
  \/ TriggerBack
  \/ Hide
  \/ Dispose
  \/ AcceptItems
  \/ LoadFailed
  \/ QuickPickShowDialog
  \/ QuickPickLoaded
  \/ LoadingShowDialog
  \/ LoadingLoaded
  \/ TriggerReload
  \/ ReloadTimeout
  \/ ReloadLoaded
  \/ ReloadFailed

SpecWidgets == InitWidgets /\ [][NextWidgets]_vars

\* a LoadingQuickPick only
InitLoading == InitWidgets /\ widget.kind = "LoadingQuickPick"

NextLoading ==
  \/ LoadingShowDialog
  \/ LoadingLoaded
  \/ LoadFailed
  \/ TriggerReload
  \/ ReloadTimeout
  \/ ReloadLoaded
  \/ ReloadFailed
  \/ TriggerBack
  \/ AcceptItems
  \/ Hide
  \/ Dispose

SpecLoading == InitLoading /\ [][NextLoading]_vars

\* every load and timeout that was started comes to an end and the caller
\* disposes; the user is free to do nothing
FairLoading ==
  /\ WF_vars(LoadingLoaded \/ LoadFailed)
  /\ WF_vars(ReloadTimeout)
  /\ WF_vars(ReloadLoaded \/ ReloadFailed)
  /\ WF_vars(Dispose)

SpecLoadingFair == SpecLoading /\ FairLoading

\* --------------------------------------------------------------- OpenDialog
\* OpenDialog.showDialog called on its own.  A path is a sequence of
\* characters, so that splitting, normalising and joining are computed as
\* path.normalize, String.split, path.join and Uri.file compute them on a
\* system whose path.sep is "/".

\* at most MaxPaths paths are stored as the previous answer
MaxPaths == 3

\* path.sep
Sep == "/"

\* the path "/" followed by the segments joined by "/"
RECURSIVE JoinSegments(_)
JoinSegments(segs) ==
  IF segs = <<>> THEN <<>>
  ELSE IF Len(segs) = 1 THEN segs[1]
  ELSE segs[1] \o <<Sep>> \o JoinSegments(Tail(segs))

AbsolutePath(segs) == <<Sep>> \o JoinSegments(segs)

\* the paths a user has picked before: the root, folders and files below it
PickedPaths ==
  { AbsolutePath(segs) :
      segs \in { <<>>,
                 << <<"a">> >>, << <<"a", "b">> >>, << <<"b">> >>,
                 << <<"a">>, <<"a">> >>, << <<"a">>, <<"b">> >>,
                 << <<"a">>, <<"a", "b">> >>, << <<"a", "b">>, <<"b">> >>,
                 << <<"b">>, <<"a">> >> } }

\* String.split(path.sep)
RECURSIVE Split(_)
Split(p) ==
  IF p = <<>> THEN << <<>> >>
  ELSE LET rest == Split(Tail(p)) IN
       IF Head(p) = Sep THEN << <<>> >> \o rest
       ELSE << <<Head(p)>> \o rest[1] >> \o Tail(rest)

\* normalizeString of path.normalize: empty and "." segments are dropped, a
\* ".." takes the segment before it away
RECURSIVE NormalizeSegments(_, _, _)
NormalizeSegments(segs, done, allowAboveRoot) ==
  IF segs = <<>> THEN done
  ELSE LET seg == Head(segs) IN
       IF seg = <<>> \/ seg = <<".">>
         THEN NormalizeSegments(Tail(segs), done, allowAboveRoot)
       ELSE IF seg = <<".", ".">>
         THEN IF done # <<>> /\ done[Len(done)] # <<".", ".">>
                THEN NormalizeSegments(Tail(segs), SubSeq(done, 1, Len(done) - 1),
                                       allowAboveRoot)
              ELSE IF allowAboveRoot
                THEN NormalizeSegments(Tail(segs), Append(done, seg), allowAboveRoot)
              ELSE NormalizeSegments(Tail(segs), done, allowAboveRoot)
       ELSE NormalizeSegments(Tail(segs), Append(done, seg), allowAboveRoot)

\* path.normalize
Normalize(p) ==
  IF p = <<>> THEN <<".">>
  ELSE LET isAbsolute == p[1] = Sep
           trailingSeparator == p[Len(p)] = Sep
           body == JoinSegments(NormalizeSegments(Split(p), <<>>, ~isAbsolute))
       IN IF body = <<>>
            THEN (IF isAbsolute THEN <<Sep>>
                  ELSE IF trailingSeparator THEN <<".", Sep>> ELSE <<".">>)
            ELSE (IF isAbsolute THEN <<Sep>> ELSE <<>>)
                 \o body
                 \o (IF trailingSeparator THEN <<Sep>> ELSE <<>>)

\* path.join: the non-empty arguments joined by the separator and normalised
PathJoin(segs) ==
  LET given == SelectSeq(segs, LAMBDA s : s # <<>>) IN
  IF given = <<>> THEN <<".">> ELSE Normalize(JoinSegments(given))

\* a Uri, by its fsPath; Uri.file puts a "/" before a path that has none
Uri(p) == [kind |-> "uri", fsPath |-> p]
UriFile(p) ==
  Uri(IF p = <<>> THEN <<Sep>> ELSE IF p[1] # Sep THEN <<Sep>> \o p ELSE p)

\* a call that ended with a TypeError
Threw == [kind |-> "threw"]

\* variant: every position at which all paths agree is taken, also after a
\* position at which they differ
RECURSIVE CommonSegments_noBreak(_, _)
CommonSegments_noBreak(splitPaths, i) ==
  IF i > Len(splitPaths[1]) THEN <<>>
  ELSE LET segment == splitPaths[1][i] IN
       IF \A k \in 1..Len(splitPaths) :
            i <= Len(splitPaths[k]) /\ splitPaths[k][i] = segment
         THEN <<segment>> \o CommonSegments_noBreak(splitPaths, i + 1)
         ELSE CommonSegments_noBreak(splitPaths, i + 1)

\* the loop over the segments of the first path, from position i on: a
\* segment all paths have at its position is taken, the first other one ends
\* the loop
RECURSIVE CommonSegments(_, _)
CommonSegments(splitPaths, i) ==
  IF i > Len(splitPaths[1]) THEN <<>>
  ELSE LET segment == splitPaths[1][i] IN
       IF \A k \in 1..Len(splitPaths) :
            i <= Len(splitPaths[k]) /\ splitPaths[k][i] = segment
         THEN <<segment>> \o CommonSegments(splitPaths, i + 1)
         ELSE <<>>

\* OpenDialog.findOutDefaultUri
findOutDefaultUri(dv, defaultUriFromOptions) ==
  IF MapHas(dv.inputValues, InputName)
    THEN LET currentValues == MapGet(dv.inputValues, InputName) IN
         IF Len(currentValues) = 1 THEN UriFile(currentValues[1])
         ELSE IF Len(currentValues) = 0 THEN Threw
         ELSE LET splitPaths == [k \in 1..Len(currentValues) |->
                                   Split(Normalize(currentValues[k]))]
              IN UriFile(PathJoin(CommonSegments(splitPaths, 1)))
    ELSE defaultUriFromOptions

\* the defaultUri of the openDialogOptions
DefaultUris == {Undefined, Uri(AbsolutePath(<< <<"b">> >>))}

\* the answers stored under the name of the OpenDialog
RECURSIVE PathLists(_)
PathLists(n) ==
  IF n = 0 THEN {<<>>}
  ELSE LET shorter == PathLists(n - 1) IN
       shorter \cup { Append(l, p) : l \in { x \in shorter : Len(x) = n - 1 }, p \in PickedPaths }

OpenDialogValues ==
  {NewDialogValues}
  \cup { [ref |-> "new", uri |-> "undefined", inputValues |-> <<[key |-> InputName, val |-> l]>>] :
           l \in PathLists(MaxPaths) }

\* what the host's showOpenDialog resolves to
OpenDialogAnswers ==
  {Undefined, Arr(<<>>), Arr(<<Uri(AbsolutePath(<< <<"a">> >>))>>)}

InitOpenDialog ==
  /\ title = "T"
  /\ inputs = <<>>
  /\ passed = FALSE
  /\ dialogValues \in OpenDialogValues
  /\ initial = dialogValues.inputValues
  /\ currentStep = [stepNumber |-> 1, totalNumber |-> 0, goingBackProcess |-> FALSE]
  /\ takenSteps = <<>>
  /\ node = 1
  /\ onceCalled = {}
  /\ pc = "openDialog"
  /\ result = "pending"
  /\ shown = <<>>
  /\ outcomes = <<>>
  /\ disposed = 0
  /\ effects = <<>>
  /\ indexBased = NotCalled
  /\ \E d \in DefaultUris :
       widget = [kind |-> "OpenDialog", phase |-> "call", defaultUri |-> d,
                 options |-> Undefined, outcome |-> Pending]

\* OpenDialog.showDialog up to the call of showOpenDialog: the options are
\* copied and the default uri that was found out, if any, is set in the copy
OpenDialogShowDialog ==
  /\ pc = "openDialog"
  /\ widget.phase = "call"
  /\ LET found == findOutDefaultUri(dialogValues, widget.defaultUri) IN
     /\ widget' = IF found = Threw
                    THEN [widget EXCEPT !.phase = "failed", !.outcome = Rejected]
                    ELSE [widget EXCEPT !.phase = "shown",
                                        !.options = IF found # Undefined THEN found
                                                    ELSE widget.defaultUri]
     /\ effects' = <<WSet("findOutDefaultUri", found)>>
  /\ UNCHANGED engineVars

\* showOpenDialog has resolved: the fsPaths of a non-empty selection are
\* resolved, undefined otherwise
OpenDialogResolved ==
  /\ pc = "openDialog"
  /\ widget.phase = "shown"
  /\ widget.outcome = Pending
  /\ \E uri \in OpenDialogAnswers :
       /\ widget' = [widget EXCEPT !.outcome =
                       IF uri # Undefined /\ Len(uri.a) # 0
                         THEN Arr([k \in 1..Len(uri.a) |-> uri.a[k].fsPath])
                         ELSE Undefined]
       /\ effects' = <<WSet("showOpenDialog", uri)>>
  /\ UNCHANGED engineVars

NextOpenDialog ==
  \/ OpenDialogShowDialog
  \/ OpenDialogResolved

SpecOpenDialog == InitOpenDialog /\ [][NextOpenDialog]_vars

\* ------------------------------------------------- showDialog that rejects
\* variant: the rejection is caught and the loop goes on with the next input
ShowDialogRejected_caught ==
  /\ pc = "showDialog"
  /\ outcomes' = Append(outcomes, Rejected)
  /\ effects' = <<Event("rejected", inputs[node].name, dialogValues, Rejected)>>
  /\ node' = node + 1
  /\ pc' = "loop"
  /\ UNCHANGED <<indexBased, widget, title, inputs, passed, initial, dialogValues, currentStep, takenSteps,
                 onceCalled, result, shown, disposed>>

\* the awaited showDialog rejects: the await of line 182 throws, nothing of
\* handleInputStep behind it is run, and handleMultiStepInput rejects
ShowDialogRejected ==
  /\ pc = "showDialog"
  /\ outcomes' = Append(outcomes, Rejected)
  /\ effects' = <<Event("rejected", inputs[node].name, dialogValues, Rejected)>>
  /\ pc' = "rejected"
  /\ UNCHANGED <<indexBased, widget, title, inputs, passed, initial, dialogValues, currentStep, takenSteps,
                 node, onceCalled, result, shown, disposed>>

NextRejecting ==
  \/ ShowDialog
  \/ SkipInput
  \/ ResolveCancelled
  \/ ResolveBack
  \/ ResolveAnswer
  \/ ReturnValues
  \/ ShowDialogRejected

SpecRejecting == InitStatic /\ [][NextRejecting]_vars

\* ------------------------------------------- the index-based revision
\* The revision of handleMultiStepInput that walks over the array of inputs
\* with an index.  It is run on the inputs and the DialogValues of the run of
\* the current revision, and its k-th showDialog call resolves to what the
\* k-th call of that run resolved to.
\*   i             the loop index, counted from 1; Len(inputs) + 1 ends the loop
\*   steps         the stack of taken steps: stepNumber, index, totalNumber
\*   shown         its showDialog calls: index of the input, step and total number

\* handleMultiStepInput (index-based) up to the for loop
IndexBasedCalled ==
  [pc |-> "loop",
   i |-> 1,
   currentStep |-> 1,
   totalNumber |-> Len(inputs),
   goingBackProcess |-> FALSE,
   steps |-> <<>>,
   dialogValues |-> [ref |-> IF passed THEN "caller" ELSE "new",
                     uri |-> IF passed THEN "file" ELSE "undefined",
                     inputValues |-> initial],
   shown |-> <<>>,
   disposed |-> 0,
   result |-> "pending"]

\* the inner function handleGoingBack: the last taken step, or the first
\* input with the full total if there is none, becomes the current one; the
\* value is the index the loop continues with after its i++
IndexBasedGoingBack(o) ==
  LET goToStep == IF o.steps # <<>>
                    THEN o.steps[Len(o.steps)]
                    ELSE [stepNumber |-> 1, index |-> 1, totalNumber |-> Len(inputs)]
  IN [o EXCEPT !.steps = IF o.steps # <<>> THEN SubSeq(o.steps, 1, Len(o.steps) - 1) ELSE <<>>,
               !.currentStep = goToStep.stepNumber,
               !.totalNumber = goToStep.totalNumber,
               !.i = goToStep.index]

\* the call of the index-based revision
IndexBasedCall ==
  /\ indexBased = NotCalled
  /\ pc = "loop"
  /\ shown = <<>>
  /\ indexBased' = IndexBasedCalled
  /\ UNCHANGED <<title, inputs, passed, initial, dialogValues, currentStep, takenSteps,
                 node, onceCalled, pc, result, shown, outcomes, disposed, effects, widget>>

\* onBeforeInput is absent or true: showDialog is called and awaited
IndexBasedShowDialog ==
  /\ indexBased.pc = "loop"
  /\ indexBased.i <= Len(inputs)
  /\ BeforeInput(indexBased.i, indexBased.dialogValues, {})
  /\ Len(indexBased.shown) < MaxShown
  /\ indexBased' = [indexBased EXCEPT
                      !.pc = "showDialog",
                      !.shown = Append(@, [index |-> indexBased.i,
                                           stepNumber |-> indexBased.currentStep,
                                           totalNumber |-> indexBased.totalNumber])]
  /\ UNCHANGED <<title, inputs, passed, initial, dialogValues, currentStep, takenSteps,
                 node, onceCalled, pc, result, shown, outcomes, disposed, effects, widget>>

\* onBeforeInput is false: while going back the loop goes back one more step,
\* otherwise the total is counted down; then the loop goes on
IndexBasedSkipInput ==
  /\ indexBased.pc = "loop"
  /\ indexBased.i <= Len(inputs)
  /\ ~BeforeInput(indexBased.i, indexBased.dialogValues, {})
  /\ indexBased' = IF indexBased.goingBackProcess
                     THEN IndexBasedGoingBack(indexBased)
                     ELSE [indexBased EXCEPT !.totalNumber = @ - 1, !.i = @ + 1]
  /\ UNCHANGED <<title, inputs, passed, initial, dialogValues, currentStep, takenSteps,
                 node, onceCalled, pc, result, shown, outcomes, disposed, effects, widget>>

\* the awaited showDialog resolves: the input is disposed; a falsy result ends
\* the run, BACK goes back, every other result is stored and the step taken
IndexBasedResolve ==
  /\ indexBased.pc = "showDialog"
  /\ Len(indexBased.shown) <= Len(outcomes)
  /\ outcomes[Len(indexBased.shown)] # Rejected
  /\ LET r == outcomes[Len(indexBased.shown)]
         o == [indexBased EXCEPT !.disposed = @ + 1, !.pc = "loop"]
     IN indexBased' =
          IF FalsyResult(r)
            THEN [o EXCEPT !.pc = "returned", !.result = "undefined"]
          ELSE IF r = InputActionBACK
            THEN [IndexBasedGoingBack(o) EXCEPT !.goingBackProcess = TRUE]
          ELSE [o EXCEPT !.goingBackProcess = FALSE,
                         !.dialogValues = AfterInput(o.i, addValue(o.dialogValues,
                                                                  inputs[o.i].name, r)),
                         !.steps = Append(@, [stepNumber |-> o.currentStep,
                                              index |-> o.i,
                                              totalNumber |-> o.totalNumber]),
                         !.currentStep = @ + 1,
                         !.i = @ + 1]
  /\ UNCHANGED <<title, inputs, passed, initial, dialogValues, currentStep, takenSteps,
                 node, onceCalled, pc, result, shown, outcomes, disposed, effects, widget>>

\* the for loop has ended: dialogValues is returned
IndexBasedReturnValues ==
  /\ indexBased.pc = "loop"
  /\ indexBased.i = Len(inputs) + 1
  /\ indexBased' = [indexBased EXCEPT !.pc = "returned", !.result = "dialogValues"]
  /\ UNCHANGED <<title, inputs, passed, initial, dialogValues, currentStep, takenSteps,
                 node, onceCalled, pc, result, shown, outcomes, disposed, effects, widget>>

\* both revisions run on the same inputs and the same outcomes
NextBothRevisions ==
  \/ ShowDialog
  \/ SkipInput
  \/ ResolveCancelled
  \/ ResolveBack
  \/ ResolveAnswer
  \/ ReturnValues
  \/ IndexBasedCall
  \/ IndexBasedShowDialog
  \/ IndexBasedSkipInput
  \/ IndexBasedResolve
  \/ IndexBasedReturnValues

SpecBothRevisions == InitStatic /\ [][NextBothRevisions]_vars

\* ------------------------------------------------- vocabulary of the claims
N == Len(inputs)

\* an outcome that is an answer: neither the absent value nor InputAction.BACK
IsAnswer(r) == r # Undefined /\ r # InputActionBACK

\* what an answer looks like once recorded: a sequence of strings
Recorded(r) ==
  IF r.kind = "string" THEN <<r.s>>
  ELSE IF r.kind = "array" THEN r.a
  ELSE IF r.b THEN <<"true">> ELSE <<"false">>

\* every showDialog call that has resolved so far resolved to an answer
AllAnswered == \A j \in 1..Len(outcomes) : IsAnswer(outcomes[j])

AllShownPre == \A i \in 1..N : inputs[i].pre \in {"none", "true"}
AllStaticPre == \A i \in 1..N : inputs[i].pre \in StaticPre

\* exactly the input at position k has onBeforeInput () => false, the others are shown
OnlySkipped(k) ==
  /\ k \in 1..N
  /\ inputs[k].pre = "false"
  /\ \A i \in (1..N) \ {k} : inputs[i].pre \in {"none", "true"}

\* the title expected for step number k of n
StepOf(k, n) == title \o " (Step " \o ToString(k) \o " of " \o ToString(n) \o ")"

\* the calls that resolved to an answer for the input called name
AnsweredCalls(name) ==
  { j \in 1..Len(outcomes) : shown[j].name = name /\ IsAnswer(outcomes[j]) }

Max(S) == CHOOSE x \in S : \A y \in S : y <= x

\* the keys of a map in a set, and the number of entries under one key
Keys(m) == { m[i].key : i \in 1..Len(m) }
EntriesOf(m, k) == Cardinality({ i \in 1..Len(m) : m[i].key = k })

\* -------------------------------------------------------------------- C1
\* C1: with every onBeforeInput true or absent and every showDialog call
\* resolving to an answer, the k-th call is for the k-th input, carries the
\* title "<title> (Step k of N)" and showBackButton = (k # 1); no input is
\* shown twice, and after the N-th answer the run returns dialogValues.
C1_InOrderOnce ==
  (N >= 1 /\ AllShownPre /\ AllAnswered) =>
    /\ Len(shown) <= N
    /\ \A k \in 1..Len(shown) :
         /\ shown[k].index = k
         /\ shown[k].title = StepOf(k, N)
         /\ shown[k].showBackButton = (k # 1)
    /\ pc # "threw"
    /\ (pc = "returned" => result = "dialogValues" /\ Len(outcomes) = N)
    /\ (pc = "loop" /\ Len(outcomes) = N => node = N + 1)
    /\ (pc = "loop" /\ Len(outcomes) < N => node = Len(outcomes) + 1)

C1_Witness ==
  /\ N = 3 /\ AllShownPre /\ AllAnswered
  /\ pc = "returned" /\ result = "dialogValues" /\ Len(shown) = 3

\* -------------------------------------------------------------------- C2
\* C2: once a showDialog call has resolved to undefined the run has returned
\* undefined, and that call is the last one made, whatever happened before.
C2_CancelEndsRun ==
  \A j \in 1..Len(outcomes) :
    outcomes[j] = Undefined =>
      /\ pc = "returned"
      /\ result = "undefined"
      /\ j = Len(outcomes)
      /\ Len(shown) = j

\* a cancellation that follows an answer, a skipped input and a back-navigation
C2_Witness ==
  /\ Len(outcomes) >= 3
  /\ outcomes[Len(outcomes)] = Undefined
  /\ \E j \in 1..Len(outcomes) : outcomes[j] = InputActionBACK
  /\ \E j \in 1..Len(outcomes) : IsAnswer(outcomes[j])
  /\ currentStep.totalNumber < N
  /\ shown[Len(shown)].index > 1

\* -------------------------------------------------------------------- C3
\* C3: after a cancelled run the accumulator holds its initial entries and the
\* answers of the calls that resolved to an answer, nothing else: its keys are
\* the initial keys and the answered names, an answered name maps to its
\* latest answer, any other key to its initial value.
C3_CancelKeepsCompleted ==
  result = "undefined" =>
    LET m == dialogValues.inputValues IN
    /\ Keys(m) = Keys(initial) \cup { shown[j].name : j \in { i \in 1..Len(outcomes) : IsAnswer(outcomes[i]) } }
    /\ \A k \in Keys(m) :
         /\ EntriesOf(m, k) = 1
         /\ MapGet(m, k) = IF AnsweredCalls(k) # {}
                             THEN Recorded(outcomes[Max(AnsweredCalls(k))])
                             ELSE MapGet(initial, k)

\* a cancellation after an answer was recorded into a passed accumulator
C3_Witness ==
  /\ result = "undefined"
  /\ passed
  /\ Len(outcomes) >= 2
  /\ \E j \in 1..Len(outcomes) : IsAnswer(outcomes[j])
  /\ Len(dialogValues.inputValues) >= 2

\* -------------------------------------------------------------------- C4
\* C4: when exactly the input at position k, 1 < k < N, has onBeforeInput
\* () => false and all others are shown, then whatever the user does the input
\* k is never shown, every call for an input behind k carries the total N-1,
\* and the accumulator has no entry under the name of k.
C4_SkippedNeverShown ==
  \A k \in 2..(N - 1) :
    OnlySkipped(k) =>
      /\ \A j \in 1..Len(shown) :
           /\ shown[j].index # k
           /\ (shown[j].index > k => shown[j].totalNumber = N - 1)
      /\ ~MapHas(dialogValues.inputValues, inputs[k].name)

\* the input behind the skipped one is shown again after a back-navigation
C4_Witness ==
  /\ N = 3 /\ OnlySkipped(2)
  /\ Len(shown) >= 4
  /\ shown[2].index = 3 /\ outcomes[2] = InputActionBACK
  /\ shown[4].index = 3

\* -------------------------------------------------------------------- C5
\* C5: with static onBeforeInput callbacks the total shown for an input is the
\* list length less the skipped inputs in front of it, so an input shown in
\* front of a skipped one still carries the undiminished total; with three
\* inputs of which the second is skipped and the others answered the titles
\* are "Step 1 of 3" and "Step 2 of 2".
SkippedBefore(i) == Cardinality({ h \in 1..(i - 1) : inputs[h].pre = "false" })

C5_TotalCountsEvaluatedSkips ==
  /\ AllStaticPre =>
       \A j \in 1..Len(shown) :
         shown[j].totalNumber = N - SkippedBefore(shown[j].index)
  /\ (N = 3 /\ OnlySkipped(2) /\ AllAnswered) =>
       /\ Len(shown) >= 1 => shown[1].index = 1 /\ shown[1].title = StepOf(1, 3)
       /\ Len(shown) >= 2 => shown[2].index = 3 /\ shown[2].title = StepOf(2, 2)

C5_Witness ==
  /\ N = 3 /\ OnlySkipped(2) /\ AllAnswered
  /\ Len(shown) = 2 /\ result = "dialogValues"

\* -------------------------------------------------------------------- C6
\* C6 as stated: with three inputs of which the middle one is skipped and the
\* other two answered, the first input sees "(Step 1 of 2)" and the third
\* "(Step 2 of 2)".
C6_AsStated ==
  (N = 3 /\ OnlySkipped(2) /\ AllAnswered) =>
    \A j \in 1..Len(shown) :
      /\ shown[j].index = 1 => shown[j].title = StepOf(1, 2)
      /\ shown[j].index = 3 => shown[j].title = StepOf(2, 2)

\* C6 amended: the first input is shown before the skip has been evaluated,
\* so it sees "(Step 1 of 3)"; the third sees "(Step 2 of 2)".
C6_FirstSeesFullTotal ==
  (N = 3 /\ OnlySkipped(2) /\ AllAnswered) =>
    \A j \in 1..Len(shown) :
      /\ shown[j].index = 1 => shown[j].title = StepOf(1, 3)
      /\ shown[j].index = 3 => shown[j].title = StepOf(2, 2)

C6_Witness ==
  /\ N = 3 /\ OnlySkipped(2) /\ AllAnswered
  /\ pc = "returned" /\ result = "dialogValues"
  /\ shown[1].index = 1 /\ shown[2].index = 3

\* -------------------------------------------------------------------- C7
\* the calls among the first j that resolved to an answer for the input at position i
AnsweredBefore(i, j) ==
  { h \in 1..(j - 1) : shown[h].index = i /\ IsAnswer(outcomes[h]) }

Min(S) == CHOOSE x \in S : \A y \in S : x <= y

\* C7: with every onBeforeInput true or absent, m consecutive BACK outcomes
\* that start at the input at position p > m are followed by a call for the
\* input at position p - m, with the step number and total it had when it was
\* first answered and with its earlier answer still in the accumulator.
C7_BackReturnsToPrevious ==
  AllShownPre =>
    \A j \in 1..Len(outcomes) : \A m \in 1..MaxShown :
      ( /\ j + m <= Len(shown)
        /\ \A h \in j..(j + m - 1) : outcomes[h] = InputActionBACK
        /\ m <= shown[j].index - 1 ) =>
          LET k == shown[j].index - m
              call == shown[j + m]
          IN /\ call.index = k
             /\ AnsweredBefore(k, j) # {}
             /\ call.stepNumber = shown[Min(AnsweredBefore(k, j))].stepNumber
             /\ call.totalNumber = shown[Min(AnsweredBefore(k, j))].totalNumber
             /\ MapHas(call.values, inputs[k].name)
             /\ MapGet(call.values, inputs[k].name) =
                  Recorded(outcomes[Max(AnsweredBefore(k, j))])

\* -------------------------------------------------------------------- C8
\* inputs [a, b, c] of which exactly b has onBeforeInput () => false
ABC_SkipB ==
  /\ N = 3 /\ OnlySkipped(2)
  /\ inputs[1].name = "a" /\ inputs[2].name = "b" /\ inputs[3].name = "c"

\* C8: for [a, b, c] with b always skipped, once a is answered and c resolves
\* to BACK the next call is for a with step number 1 and total 3, and once a
\* is answered again the next call is for c as step 2 of 2.
C8_BackAcrossSkip ==
  ( /\ ABC_SkipB
    /\ Len(outcomes) >= 2
    /\ IsAnswer(outcomes[1])
    /\ outcomes[2] = InputActionBACK ) =>
      /\ shown[1].name = "a" /\ shown[2].name = "c"
      /\ pc # "threw"
      /\ pc = "loop" /\ Len(outcomes) = 2 => node = 1
      /\ Len(shown) >= 3 =>
           /\ shown[3].name = "a"
           /\ shown[3].stepNumber = 1
           /\ shown[3].totalNumber = 3
           /\ shown[3].title = StepOf(1, 3)
      /\ (Len(outcomes) >= 3 /\ IsAnswer(outcomes[3]) /\ Len(shown) >= 4) =>
           /\ shown[4].name = "c"
           /\ shown[4].title = StepOf(2, 2)
      /\ (Len(outcomes) = 3 /\ IsAnswer(outcomes[3]) /\ pc = "loop") => node \in {2, 3}

C8_Witness ==
  /\ ABC_SkipB
  /\ Len(shown) = 4
  /\ IsAnswer(outcomes[1]) /\ outcomes[2] = InputActionBACK /\ IsAnswer(outcomes[3])
  /\ shown[4].name = "c"

\* -------------------------------------------------------------------- C9
\* C9: an input answered more than once in a run has exactly one entry in the
\* accumulator, and the entry holds the latest of its answers.
C9_ReanswerOverwrites ==
  \A i \in 1..N :
    Cardinality(AnsweredCalls(inputs[i].name)) >= 2 =>
      /\ EntriesOf(dialogValues.inputValues, inputs[i].name) = 1
      /\ MapGet(dialogValues.inputValues, inputs[i].name) =
           Recorded(outcomes[Max(AnsweredCalls(inputs[i].name))])

\* an input answered twice, the second time differently
C9_Witness ==
  \E i \in 1..N :
    LET calls == AnsweredCalls(inputs[i].name) IN
    /\ Cardinality(calls) >= 2
    /\ outcomes[Max(calls)] # outcomes[Min(calls)]

\* -------------------------------------------------------------------- C10
\* C10: at every showDialog call showBackButton is true exactly when takenSteps
\* is non-empty, and exactly when the step number is not 1.
C10_BackButtonIffTaken ==
  \A j \in 1..Len(shown) :
    /\ shown[j].showBackButton = (shown[j].taken > 0)
    /\ shown[j].showBackButton = (shown[j].stepNumber # 1)

\* ------------------------------------------------ vocabulary, second part
\* the positions in effects of the effects of one kind
EventsOf(ev) == { k \in 1..Len(effects) : effects[k].ev = ev }

\* the names of the inputs that were answered in this run
AnsweredNames == { shown[j].name : j \in { k \in 1..Len(outcomes) : IsAnswer(outcomes[k]) } }

\* the last showDialog call that has resolved, and the input it was for
LastCall == Len(outcomes)
LastInput == inputs[shown[LastCall].index]

\* -------------------------------------------------------------------- C11
\* C11: a ConfirmationDialog resolves to true when the host reports the confirm
\* button and to undefined for any other button and for a dismissal; in the
\* latter case the run returns undefined; and no ConfirmationDialog ever has
\* the entry ["false"] in inputValues.
C11_ConfirmationTrueOrAbsent ==
  /\ \A k \in EventsOf("showInformationMessage") :
       /\ effects[k + 1].ev = "resolved"
       /\ effects[k + 1].result =
            (IF effects[k].result = Item(ConfirmButtonName) THEN Bool(TRUE) ELSE Undefined)
       /\ effects[k].result # Item(ConfirmButtonName) =>
            pc = "returned" /\ result = "undefined"
  /\ \A i \in 1..N :
       (inputs[i].type = "confirmation" /\ MapHas(dialogValues.inputValues, inputs[i].name)) =>
         MapGet(dialogValues.inputValues, inputs[i].name) # <<"false">>

\* one confirmation was confirmed and recorded, a later one was declined with
\* the other button
C11_Witness ==
  /\ \E k \in EventsOf("showInformationMessage") : effects[k].result = Item("Cancel")
  /\ result = "undefined"
  /\ \E i \in 1..N :
       /\ inputs[i].type = "confirmation"
       /\ MapHas(dialogValues.inputValues, inputs[i].name)
       /\ MapGet(dialogValues.inputValues, inputs[i].name) = <<"true">>

\* -------------------------------------------------------------------- C12
\* C12: when the run has returned dialogValues, every ConfirmationDialog that
\* was confirmed in it has the entry ["true"] under its name.
C12_ConfirmedStoredAsTrue ==
  result = "dialogValues" =>
    \A j \in 1..Len(outcomes) :
      (inputs[shown[j].index].type = "confirmation" /\ outcomes[j] = Bool(TRUE)) =>
        /\ MapHas(dialogValues.inputValues, shown[j].name)
        /\ MapGet(dialogValues.inputValues, shown[j].name) = <<"true">>

\* a returned run of two inputs or more with a confirmed ConfirmationDialog
\* whose name had an entry before the run
C12_Witness ==
  /\ result = "dialogValues"
  /\ N >= 2
  /\ \E j \in 1..Len(outcomes) :
       /\ inputs[shown[j].index].type = "confirmation"
       /\ outcomes[j] = Bool(TRUE)
       /\ MapHas(initial, shown[j].name)

\* -------------------------------------------------------------------- C13
\* C13: after addValue(name, value) the entry for name is [value] for a string,
\* the elements of value in their order for an array, ["true"] or ["false"]
\* for a boolean; there is one entry for name, and all other entries, their
\* order and the uri are as before the call.
C13_AddValueSetsOneEntry ==
  \A k \in EventsOf("addValue") :
    pc = "addValue" =>
      LET e == effects[k]
          before == e.dv.inputValues
          after == dialogValues.inputValues
      IN /\ MapHas(after, e.name)
         /\ MapGet(after, e.name) = Recorded(e.result)
         /\ EntriesOf(after, e.name) = 1
         /\ Keys(after) = Keys(before) \cup {e.name}
         /\ \A n \in Keys(before) \ {e.name} :
              /\ MapGet(after, n) = MapGet(before, n)
              /\ EntriesOf(after, n) = 1
         /\ SelectSeq(after, LAMBDA x : x.key # e.name)
              = SelectSeq(before, LAMBDA x : x.key # e.name)
         /\ dialogValues.uri = e.dv.uri

\* an array of two elements replaces the earlier boolean entry of a name while
\* another name has an entry
C13_Witness ==
  /\ pc = "addValue"
  /\ \E k \in EventsOf("addValue") :
       /\ effects[k].result = Arr(<<"y", "z">>)
       /\ MapHas(effects[k].dv.inputValues, effects[k].name)
       /\ MapGet(effects[k].dv.inputValues, effects[k].name) = <<"false">>
       /\ Keys(effects[k].dv.inputValues) # {effects[k].name}

\* -------------------------------------------------------------------- C14
\* C14: a run that was given a DialogValues object and returns dialogValues
\* returns that object; its entries under names that were not answered are the
\* initial ones and every answered name has its latest answer.
C14_PassedObjectReturned ==
  (passed /\ result = "dialogValues") =>
    /\ dialogValues.ref = "caller"
    /\ \A n \in Keys(initial) \ AnsweredNames :
         /\ MapHas(dialogValues.inputValues, n)
         /\ MapGet(dialogValues.inputValues, n) = MapGet(initial, n)
    /\ \A n \in AnsweredNames :
         /\ MapHas(dialogValues.inputValues, n)
         /\ MapGet(dialogValues.inputValues, n) = Recorded(outcomes[Max(AnsweredCalls(n))])
    /\ Keys(dialogValues.inputValues) = Keys(initial) \cup AnsweredNames

\* a returned run on a passed object that kept the entry "old" and answered "a"
C14_Witness ==
  /\ passed
  /\ result = "dialogValues"
  /\ "old" \in Keys(initial)
  /\ "a" \in AnsweredNames

\* -------------------------------------------------------------------- C15
\* C15: with no inputs nothing is shown and the run returns dialogValues,
\* whose inputValues is empty, or the initial entries of the passed object.
C15_EmptyListReturnsValues ==
  N = 0 =>
    /\ shown = <<>>
    /\ pc \in {"loop", "returned"}
    /\ pc = "loop" => ENABLED ReturnValues
    /\ pc = "returned" =>
         /\ result = "dialogValues"
         /\ dialogValues.inputValues = initial
         /\ ~passed => dialogValues.inputValues = <<>>

\* the run over no inputs has returned, on a passed object
C15_Witness ==
  /\ N = 0
  /\ pc = "returned"
  /\ passed
  /\ initial # <<>>

\* -------------------------------------------------------------------- C16
\* C16: when onAfterInput is called the answer is already in inputValues; it is
\* called once for an answer to an input that has the callback and not
\* otherwise; the next onBeforeInput sees what the callback wrote; no call is
\* made when showDialog resolved to BACK or undefined or when the input was
\* skipped.
C16_HookAfterStoreOnce ==
  /\ \A k \in EventsOf("onAfterInput") :
       /\ \E a \in EventsOf("addValue") : a < k /\ effects[a].name = effects[k].name
       /\ MapHas(effects[k].dv.inputValues, effects[k].name)
       /\ MapGet(effects[k].dv.inputValues, effects[k].name) = Recorded(effects[k].result)
  /\ \A k \in EventsOf("resolved") :
       Cardinality(EventsOf("onAfterInput")) =
         (IF IsAnswer(effects[k].result) /\ LastInput.post # "none" THEN 1 ELSE 0)
  /\ \A k \in EventsOf("onBeforeInput") :
       /\ EventsOf("onAfterInput") = {}
       /\ (LastCall >= 1 /\ IsAnswer(outcomes[LastCall]) /\ LastInput.post = "uri") =>
            effects[k].dv.uri = Recorded(outcomes[LastCall])[1]

\* an input whose onBeforeInput needs the uri is shown because the onAfterInput
\* of the input answered before it has set the uri
C16_Witness ==
  /\ ~passed
  /\ \E k \in EventsOf("onBeforeInput") :
       /\ effects[k].result = Bool(TRUE)
       /\ inputs[node].pre = "uriSet"
       /\ effects[k].dv.uri = "y"
  /\ LastCall >= 1
  /\ outcomes[LastCall] = Arr(<<"y", "z">>)
  /\ LastInput.post = "uri"

\* -------------------------------------------------------------------- C17
\* C17: every showDialog call that has resolved was followed at once by the
\* dispose of its input, before addValue, onAfterInput, the push, the return
\* and the next onBeforeInput and showDialog.
C17_DisposeFirst ==
  /\ disposed = Len(outcomes)
  /\ \A k \in EventsOf("resolved") :
       /\ k < Len(effects)
       /\ effects[k + 1].ev = "dispose"
       /\ effects[k + 1].name = effects[k].name
       /\ \A m \in 1..(k - 1) : effects[m].ev = "showInformationMessage"
  /\ Cardinality(EventsOf("dispose")) = Cardinality(EventsOf("resolved"))
  /\ (EventsOf("onBeforeInput") \cup EventsOf("showDialog")) # {} =>
       EventsOf("resolved") = {}

\* an answer, a BACK and an undefined have been resolved and three inputs disposed
C17_Witness ==
  /\ Len(outcomes) = 3
  /\ IsAnswer(outcomes[1])
  /\ outcomes[2] = InputActionBACK
  /\ outcomes[3] = Undefined
  /\ disposed = 3
  /\ \E k \in EventsOf("dispose") : effects[k].result = Undefined

\* -------------------------------------------------------------------- C18
\* the position of the input called name
IndexOf(name) == CHOOSE i \in 1..N : inputs[i].name = name

\* an input whose onBeforeInput is false once the input has been answered
FalseOnceAnswered(name) == inputs[IndexOf(name)].pre \in DynamicPre

\* the records of steps whose onBeforeInput still holds
StillNeeded(st) == { m \in 1..Len(st) : ~FalseOnceAnswered(st[m].name) }

\* C18: after a BACK whose popped record belongs to an input that is no longer
\* needed, that input is not shown and records are popped until one belongs to
\* an input that is still needed; the next showDialog call is for that input with the record's step
\* number and total, the records below it are left on takenSteps, and after an
\* answer to it the inputs skipped on the way forward are counted off the total.
C18_UnwindPastFalse ==
  \A j \in 1..(Len(shown) - 1) :
    LET st == shown[j].steps IN
    (/\ outcomes[j] = InputActionBACK
     /\ st # <<>>
     /\ FalseOnceAnswered(st[Len(st)].name)
     /\ StillNeeded(st) # {}) =>
      LET m == Max(StillNeeded(st)) IN
         /\ shown[j + 1].name = st[m].name
         /\ shown[j + 1].stepNumber = st[m].stepNumber
         /\ shown[j + 1].totalNumber = st[m].totalNumber
         /\ shown[j + 1].steps = SubSeq(st, 1, m - 1)
         /\ (j + 2 <= Len(shown) /\ IsAnswer(outcomes[j + 1])) =>
              /\ shown[j + 2].stepNumber = st[m].stepNumber + 1
              /\ shown[j + 2].totalNumber =
                   st[m].totalNumber - (shown[j + 2].index - shown[j + 1].index - 1)
              /\ \A q \in (m + 1)..Len(st) : shown[j + 2].name # st[q].name

\* -------------------------------------------------------------------- C19
\* C19: after a BACK that finds takenSteps empty the next showDialog call is
\* for the same input, with the same title and inputValues, and with
\* showBackButton = false.
C19_BackOnEmptyStack ==
  \A j \in 1..(Len(shown) - 1) :
    (outcomes[j] = InputActionBACK /\ shown[j].steps = <<>>) =>
      /\ shown[j + 1].index = shown[j].index
      /\ shown[j + 1].title = shown[j].title
      /\ shown[j + 1].values = shown[j].values
      /\ shown[j + 1].steps = <<>>
      /\ shown[j + 1].showBackButton = FALSE

\* -------------------------------------------------------------------- C20
\* C20: skipping an input that was answered earlier in the run leaves its
\* entry in inputValues, and the dialogValues returned at the end hold the
\* latest answer of every input that was answered.
C20_SkipKeepsAnswer ==
  /\ \A k \in EventsOf("onBeforeInput") :
       (effects[k].result = Bool(FALSE) /\ effects[k].name \in AnsweredNames) =>
         /\ MapHas(dialogValues.inputValues, effects[k].name)
         /\ MapGet(dialogValues.inputValues, effects[k].name)
              = MapGet(effects[k].dv.inputValues, effects[k].name)
  /\ result = "dialogValues" =>
       \A n \in AnsweredNames :
         /\ MapHas(dialogValues.inputValues, n)
         /\ MapGet(dialogValues.inputValues, n) = Recorded(outcomes[Max(AnsweredCalls(n))])

\* a returned run in which an input was answered once, then passed going back
\* and skipped going forward
C20_Witness ==
  /\ result = "dialogValues"
  /\ \E j \in 1..Len(outcomes) :
       /\ IsAnswer(outcomes[j])
       /\ FalseOnceAnswered(shown[j].name)
       /\ Cardinality(AnsweredCalls(shown[j].name)) = 1
       /\ \E b \in (j + 1)..Len(shown) : shown[b].index < shown[j].index
       /\ shown[Len(shown)].index > shown[j].index
       /\ MapGet(dialogValues.inputValues, shown[j].name) = Recorded(outcomes[j])

\* ------------------------------------------------- vocabulary, third part
\* s holds x
InSeq(x, s) == \E i \in 1..Len(s) : s[i] = x

\* the texts validateInput has no message for
ValidTexts == { t \in Texts : Falsy(validateInput(t)) }

\* a load of a LoadingQuickPick is under way: the one of showDialog or a reload
LoadRunning(w) == w.phase = "loading" \/ w.reload \in {"timer", "loading"}

\* -------------------------------------------------------------------- C21
\* C21: the showDialog of an InputBox with validateInput is pending or resolved
\* to undefined, to BACK or to a text validateInput has no message for; a
\* step in which validateInput returns a message for the accepted value
\* leaves the promise as it was.
C21_NoInvalidText ==
  /\ [](( widget.kind = "InputBox" /\ widget.validateInput) =>
          widget.outcome \in {Pending, Undefined, InputActionBACK}
                             \cup { Str(t) : t \in ValidTexts })
  /\ [][ (/\ widget.kind = "InputBox"
          /\ Len(effects') > 0
          /\ effects'[1].ev = "validateInput"
          /\ ~Falsy(effects'[1].result))
         => widget'.outcome = widget.outcome ]_vars

\* validateInput has returned its message for the accepted "foo" and the
\* promise is still pending
C21_Witness ==
  /\ widget.kind = "InputBox"
  /\ widget.validateInput
  /\ EventsOf("validateInput") # {}
  /\ effects[1].result = Str("Invalid")
  /\ widget.outcome = Pending
  /\ widget.value = "foo"

\* -------------------------------------------------------------------- C22
\* C22: once the user has hidden a LoadingQuickPick, its showDialog is
\* eventually settled.
C22_HideResolves == widget.userHid ~> (widget.outcome # Pending)

\* -------------------------------------------------------------------- C23
\* C23: when a reload function has failed, the error is logged, showDialog is
\* not rejected, and the quick pick is neither busy nor disabled.
C23_FailedReloadUnblocks ==
  \A k \in EventsOf("failed") :
    /\ InSeq("logger.error", [i \in 1..Len(effects) |-> effects[i].ev])
    /\ widget.outcome # Rejected
    /\ ~widget.busy
    /\ widget.enabled

\* -------------------------------------------------------------------- C24
\* C24: a reload calls reloadItems if the options have it and generateItems
\* otherwise, the items of the quick pick become what that function returned,
\* no second quick pick is created and no step of a reload settles the promise.
C24_ReloadReplacesItems ==
  /\ [](widget.kind = "LoadingQuickPick" =>
          /\ widget.created <= 1
          /\ widget.reload = "loading" =>
               widget.loadFunction =
                 (IF widget.reloadItems THEN "reloadItems" ELSE "generateItems")
          /\ \A k \in EventsOf("loaded") :
               /\ widget.items =
                    (IF widget.reloadItems THEN ReloadedItems ELSE GeneratedItems)
               /\ \E i \in EventsOf("items") : effects[i].result = Arr(widget.items))
  /\ [][ widget'.reload # widget.reload =>
           /\ widget'.outcome = widget.outcome
           /\ widget'.created = widget.created ]_vars

\* a reload with reloadItems has set the reloaded items and the promise is pending
C24_Witness ==
  /\ widget.kind = "LoadingQuickPick"
  /\ widget.reloadItems
  /\ EventsOf("loaded") # {}
  /\ widget.items = ReloadedItems
  /\ widget.outcome = Pending
  /\ widget.created = 1

\* -------------------------------------------------------------------- C25
\* C25: while a load is under way the quick pick is busy and disabled; busy
\* is set to true together with enabled to false, and to false together with
\* enabled to true and the items; the quick pick becomes enabled only in the
\* step that ends a load.
C25_BusyWhileLoading ==
  /\ [](widget.kind = "LoadingQuickPick" =>
          /\ LoadRunning(widget) => (widget.busy /\ ~widget.enabled)
          /\ \A k \in EventsOf("busy") :
               /\ k < Len(effects)
               /\ effects[k + 1].ev = "enabled"
               /\ effects[k + 1].result = Bool(~effects[k].result.b)
          /\ Cardinality(EventsOf("enabled")) = Cardinality(EventsOf("busy"))
          /\ \A k \in EventsOf("enabled") :
               effects[k].result = Bool(TRUE) <=> EventsOf("items") # {}
          /\ \A k \in EventsOf("items") :
               /\ effects[k].result = Arr(widget.items)
               /\ ~widget.busy
               /\ widget.enabled)
  /\ [][ (widget.kind = "LoadingQuickPick" /\ ~widget.enabled /\ widget'.enabled) =>
           /\ LoadRunning(widget)
           /\ ~LoadRunning(widget') ]_vars

\* a reload has come to its end: the quick pick was blocked and is enabled again
C25_Witness ==
  /\ widget.kind = "LoadingQuickPick"
  /\ widget.reloads = 1
  /\ EventsOf("loaded") # {}
  /\ EventsOf("items") # {}
  /\ ~widget.busy
  /\ widget.enabled

\* -------------------------------------------------------------------- C26
\* C26: the widget shown by InputBox, QuickPick and LoadingQuickPick has the
\* Back button exactly if showBackButton is true, and showDialog is resolved
\* to InputAction.BACK exactly if the Back button was triggered.
C26_BackButtonMeansBack ==
  /\ widget.phase = "shown" => (InSeq("Back", widget.buttons) <=> widget.showBackButton)
  /\ (widget.outcome = InputActionBACK) <=> (widget.cause = "Back")

\* -------------------------------------------------------------------- C27
\* the folders and the file a path names, from the root on
Location(p) == NormalizeSegments(Split(p), <<>>, FALSE)

\* the longest sequence that every sequence of the list starts with
RECURSIVE LongestCommonPrefix(_)
LongestCommonPrefix(seqs) ==
  IF \E k \in 1..Len(seqs) : seqs[k] = <<>> THEN <<>>
  ELSE IF \A k \in 1..Len(seqs) : Head(seqs[k]) = Head(seqs[1])
    THEN <<Head(seqs[1])>> \o LongestCommonPrefix([k \in 1..Len(seqs) |-> Tail(seqs[k])])
  ELSE <<>>

\* C27: with one path stored under the name of the OpenDialog the default uri
\* handed to showOpenDialog is that path; with several it names the location
\* given by the longest common prefix of their segment sequences; with no
\* entry it is the defaultUri of the options.
C27_DefaultFromPreviousAnswer ==
  (pc = "openDialog" /\ widget.phase # "call") =>
    IF MapHas(dialogValues.inputValues, InputName)
      THEN LET stored == MapGet(dialogValues.inputValues, InputName) IN
           /\ Len(stored) = 1 => widget.options = Uri(stored[1])
           /\ Len(stored) > 1 =>
                /\ widget.phase = "shown"
                /\ widget.options # Undefined
                /\ widget.options.fsPath[1] = Sep
                /\ Location(widget.options.fsPath) =
                     LongestCommonPrefix([k \in 1..Len(stored) |-> Location(stored[k])])
      ELSE widget.options = widget.defaultUri

\* three stored paths with a common folder and file names that begin alike
C27_Witness ==
  /\ pc = "openDialog"
  /\ widget.phase = "shown"
  /\ MapHas(dialogValues.inputValues, InputName)
  /\ MapGet(dialogValues.inputValues, InputName) =
       << AbsolutePath(<< <<"a">>, <<"a">> >>),
          AbsolutePath(<< <<"a">>, <<"a", "b">> >>),
          AbsolutePath(<< <<"a">>, <<"b">> >>) >>
  /\ widget.options = Uri(AbsolutePath(<< <<"a">> >>))

\* -------------------------------------------------------------------- C28
\* C28: when the user answers every dialog that is shown, a loop that is
\* about to work on an input always comes to show a dialog or to return.
C28_LoopPresentsOrReturns ==
  (pc = "loop" /\ Len(shown) < MaxShown) ~> (pc # "loop")

\* -------------------------------------------------------------------- C29
\* C29: every dialog is shown with 1 <= step number <= total number <= number
\* of inputs, and with a step number that is one more than the number of
\* records in takenSteps.
C29_StepNumberInvariants ==
  \A j \in 1..Len(shown) :
    /\ 1 <= shown[j].stepNumber
    /\ shown[j].stepNumber <= shown[j].totalNumber
    /\ shown[j].totalNumber <= N
    /\ shown[j].stepNumber = shown[j].taken + 1

\* -------------------------------------------------------------------- C30
\* the input at position i was skipped on a forward pass: an answered dialog
\* was followed by the dialog of an input behind i, or the first dialog was
\* that of an input behind i
SkippedForward(i) ==
  \/ Len(shown) >= 1 /\ i < shown[1].index
  \/ \E m \in 1..(Len(shown) - 1) :
       /\ IsAnswer(outcomes[m])
       /\ shown[m].index < i
       /\ i < shown[m + 1].index

\* the dialog shown as number j was reached by going back, from the dialog
\* shown as number i on, across an input that was skipped in between
BackAcrossSkip(i, j) ==
  /\ 1 <= i /\ i < j - 1 /\ j <= Len(shown)
  /\ outcomes[j - 1] = InputActionBACK
  /\ shown[j].index < shown[j - 1].index
  /\ shown[i].index = shown[j].index
  /\ IsAnswer(outcomes[i])
  /\ \A k \in (i + 1)..(j - 1) : shown[k].index # shown[j].index
  /\ \E m \in i..(j - 2) :
       /\ IsAnswer(outcomes[m])
       /\ shown[m + 1].index > shown[m].index + 1

\* C30: a dialog reached by going back across a skipped input has the total
\* number it had when it was answered, before the skip; and when the loop
\* comes again to an input that was skipped on a forward pass and whose
\* onBeforeInput is now true, the dialog of that input is shown and the total
\* number stays as it is.
C30_SkipNotPermanent ==
  /\ [](\A i, j \in 1..Len(shown) :
          BackAcrossSkip(i, j) =>
            /\ shown[j].totalNumber = shown[i].totalNumber
            /\ shown[j].stepNumber = shown[i].stepNumber)
  /\ [][ ( /\ pc = "loop"
           /\ node <= N
           /\ SkippedForward(node)
           /\ BeforeInput(node, dialogValues, onceCalled)
           /\ Len(shown) < MaxShown ) =>
         ( /\ pc' = "showDialog"
           /\ Len(shown') = Len(shown) + 1
           /\ shown'[Len(shown')].index = node
           /\ shown'[Len(shown')].totalNumber = currentStep.totalNumber
           /\ currentStep'.totalNumber = currentStep.totalNumber ) ]_vars

\* the second of three inputs is skipped, the user goes back from the third
\* to the first, which is shown as step 1 of 3 again, and the second is then
\* shown as step 2 of 3
C30_Witness ==
  /\ N = 3
  /\ Len(shown) >= 4
  /\ shown[1].index = 1 /\ shown[1].totalNumber = 3
  /\ shown[2].index = 3 /\ shown[2].totalNumber = 2
  /\ BackAcrossSkip(1, 3)
  /\ shown[3].totalNumber = 3
  /\ IsAnswer(outcomes[3])
  /\ shown[4].index = 2
  /\ shown[4].stepNumber = 2
  /\ shown[4].totalNumber = 3

\* -------------------------------------------------------------------- C31
\* C31: a run is cancelled by the outcome undefined only.  The outcomes "",
\* the empty array and false are answers: the entry of the input is set to
\* their elements, a record of the step is pushed on takenSteps and the loop
\* goes on behind the input.
C31_FalsyAnswersRecorded ==
  /\ result = "undefined" => outcomes[Len(outcomes)] = Undefined
  /\ \A j \in 1..Len(outcomes) :
       (outcomes[j] \in BlankAnswers /\ j = Len(outcomes)) =>
         /\ result # "undefined"
         /\ pc \in {"loop", "showDialog", "returned"}
         /\ MapHas(dialogValues.inputValues, shown[j].name)
         /\ MapGet(dialogValues.inputValues, shown[j].name) = Elements(outcomes[j])
         /\ takenSteps # <<>>
         /\ takenSteps[Len(takenSteps)] = [name |-> shown[j].name,
                                           stepNumber |-> shown[j].stepNumber,
                                           totalNumber |-> shown[j].totalNumber]
         /\ node > shown[j].index
         /\ Len(shown) > j => shown[j + 1].index > shown[j].index

\* the three falsy or empty answers were given one after the other, and the
\* run returned the values
C31_Witness ==
  /\ Len(outcomes) = 3
  /\ {outcomes[1], outcomes[2], outcomes[3]} = BlankAnswers
  /\ result = "dialogValues"
  /\ Len(dialogValues.inputValues) = 3

\* -------------------------------------------------------------------- C32
\* C32: inputValues changes only in the step in which showDialog resolves to
\* an answer, and then, unless an onAfterInput callback is configured for the
\* input, by setting the entry of that input to the elements of the answer;
\* the uri of dialogValues changes only where such a callback is called.  A
\* BACK, a cancellation and a skipped input leave dialogValues as it is.
C32_ValuesChangeOnAnswerOnly ==
  [][ /\ (dialogValues'.inputValues # dialogValues.inputValues) =>
           /\ pc = "showDialog"
           /\ Len(outcomes') = Len(outcomes) + 1
           /\ IsAnswer(outcomes'[Len(outcomes')])
           /\ inputs[node].post = "none" =>
                dialogValues'.inputValues =
                  MapSet(dialogValues.inputValues, inputs[node].name,
                         Elements(outcomes'[Len(outcomes')]))
      /\ (dialogValues'.uri # dialogValues.uri \/ dialogValues'.ref # dialogValues.ref) =>
           /\ pc = "showDialog"
           /\ Len(outcomes') = Len(outcomes) + 1
           /\ IsAnswer(outcomes'[Len(outcomes')])
           /\ inputs[node].post # "none"
      /\ ( \/ Len(outcomes') = Len(outcomes)
           \/ ~IsAnswer(outcomes'[Len(outcomes')]) ) =>
           dialogValues' = dialogValues ]_vars

\* an answer was stored, an input was skipped and the user went back and
\* cancelled, and the values are those of the one answer
C32_Witness ==
  /\ result = "undefined"
  /\ Len(outcomes) = 3
  /\ IsAnswer(outcomes[1])
  /\ outcomes[2] = InputActionBACK
  /\ shown[2].index = 3
  /\ passed = FALSE
  /\ dialogValues.inputValues = <<[key |-> shown[1].name, val |-> Elements(outcomes[1])]>>

\* -------------------------------------------------------------------- C33
\* the positions in inputValues of two entries that were both answered in
\* this run and were not in inputValues before it
AnsweredPairs ==
  { p \in (1..Len(dialogValues.inputValues)) \X (1..Len(dialogValues.inputValues)) :
      /\ p[1] < p[2]
      /\ \A e \in {p[1], p[2]} :
           /\ AnsweredCalls(dialogValues.inputValues[e].key) # {}
           /\ ~MapHas(initial, dialogValues.inputValues[e].key) }

\* C33 as stated: after a run the entries of inputValues are iterated in the
\* order in which their inputs were answered for the last time.
C33_AsStated ==
  pc = "returned" =>
    \A p \in AnsweredPairs :
      Max(AnsweredCalls(dialogValues.inputValues[p[1]].key))
        < Max(AnsweredCalls(dialogValues.inputValues[p[2]].key))

\* C33: the entries of inputValues are iterated in the order in which they
\* were inserted: first the entries that were there before the run, in their
\* order, then the entries of the inputs in the order in which the inputs
\* were answered for the first time; answering an input again keeps the place
\* of its entry.
C33_FirstAnsweredOrder ==
  LET m == dialogValues.inputValues IN
  /\ Len(m) >= Len(initial)
  /\ \A e \in 1..Len(initial) : m[e].key = initial[e].key
  /\ \A e \in (Len(initial) + 1)..Len(m) : AnsweredCalls(m[e].key) # {}
  /\ \A p \in AnsweredPairs :
       Min(AnsweredCalls(m[p[1]].key)) < Min(AnsweredCalls(m[p[2]].key))

\* a run has returned the values, and the input whose entry comes first was
\* answered again after the input whose entry comes second
C33_Witness ==
  /\ result = "dialogValues"
  /\ \E p \in AnsweredPairs :
       Max(AnsweredCalls(dialogValues.inputValues[p[1]].key))
         > Max(AnsweredCalls(dialogValues.inputValues[p[2]].key))

\* -------------------------------------------------------------------- C34
\* C34: the dialog of the last input of the list is always shown with a step
\* number equal to the total number (title "... (Step k of k)"), and when the
\* run returns dialogValues the total number equals the number of records in
\* takenSteps.
C34_LastStepIsKOfK ==
  /\ \A j \in 1..Len(shown) :
       shown[j].index = N =>
         /\ shown[j].stepNumber = shown[j].totalNumber
         /\ shown[j].title = StepOf(shown[j].totalNumber, shown[j].totalNumber)
  /\ result = "dialogValues" => currentStep.totalNumber = Len(takenSteps)

\* -------------------------------------------------------------------- C35
\* C35: at most one showDialog call is pending.  While a call is pending the
\* loop does nothing: the next step is the end of the await, with the input
\* disposed in it; onBeforeInput is called, a dialog is shown and the run
\* returns only when every dialog shown so far has resolved and was disposed.
C35_OnePresentationAtATime ==
  /\ [](/\ Len(shown) - Len(outcomes) \in {0, 1}
        /\ (pc = "showDialog") <=> (Len(shown) = Len(outcomes) + 1)
        /\ disposed = Len(outcomes)
        /\ pc = "returned" => Len(shown) = Len(outcomes))
  /\ [][ /\ pc = "showDialog" =>
              /\ Len(outcomes') = Len(outcomes) + 1
              /\ disposed' = disposed + 1
              /\ shown' = shown
              /\ \E k \in 1..Len(effects') :
                   /\ effects'[k].ev = "dispose"
                   /\ \A l \in 1..k :
                        effects'[l].ev \notin {"onBeforeInput", "showDialog", "return"}
         /\ ( \/ Len(shown') # Len(shown)
              \/ \E k \in 1..Len(effects') : effects'[k].ev = "onBeforeInput"
              \/ pc' = "returned" /\ pc = "loop" ) =>
              /\ Len(outcomes) = Len(shown)
              /\ disposed = Len(shown) ]_vars

\* the third dialog of a run is pending, the two before it were disposed
C35_Witness ==
  /\ pc = "showDialog"
  /\ Len(shown) = 3
  /\ Len(outcomes) = 2
  /\ disposed = 2

\* -------------------------------------------------------------------- C36
\* C36: when a showDialog call rejects, handleMultiStepInput rejects: it
\* returns no value, no further dialog is shown, and dialogValues holds what
\* it held when the failing dialog was shown, that is the entries it had
\* before the run and the answers recorded before the failing call.
C36_RejectionPropagates ==
  \A j \in 1..Len(outcomes) :
    outcomes[j] = Rejected =>
      /\ j = Len(outcomes)
      /\ j = Len(shown)
      /\ pc = "rejected"
      /\ result = "pending"
      /\ dialogValues.inputValues = shown[j].values
      /\ Keys(dialogValues.inputValues) =
           Keys(initial) \cup { shown[k].name : k \in { l \in 1..(j - 1) : IsAnswer(outcomes[l]) } }

\* the third call of a run rejected after two answers
C36_Witness ==
  /\ pc = "rejected"
  /\ Len(outcomes) = 3
  /\ IsAnswer(outcomes[1]) /\ IsAnswer(outcomes[2])
  /\ outcomes[3] = Rejected
  /\ Len(dialogValues.inputValues) >= 2

\* -------------------------------------------------------------------- C37
\* C37: once the LoadingQuickPick has resolved and was disposed, no step
\* changes the items, the placeholder, busy or enabled of the quick pick, also
\* not the end of a reload that was started while the quick pick was shown.
C37_NoChangeAfterDispose ==
  [][ (widget.kind = "LoadingQuickPick" /\ widget.disposed) =>
        /\ widget'.items = widget.items
        /\ widget'.placeholder = widget.placeholder
        /\ widget'.busy = widget.busy
        /\ widget'.enabled = widget.enabled ]_vars

\* -------------------------------------------------------------------- C38
\* C38: on the same inputs (unique names, static onBeforeInput) and the same
\* outcomes, the index-based and the linked-list revision call showDialog for
\* the same inputs with the same step and total numbers, call by call; neither
\* returns while the other one shows a further dialog, and when both have
\* returned they have returned the same.
C38_RevisionsAgree ==
  indexBased # NotCalled =>
    /\ \A k \in 1..Len(indexBased.shown) :
         k <= Len(shown) =>
           /\ indexBased.shown[k].index = shown[k].index
           /\ indexBased.shown[k].stepNumber = shown[k].stepNumber
           /\ indexBased.shown[k].totalNumber = shown[k].totalNumber
    /\ (pc = "returned" /\ Len(indexBased.shown) > Len(shown)) => FALSE
    /\ (indexBased.pc = "returned" /\ Len(shown) > Len(indexBased.shown)) => FALSE
    /\ (pc = "returned" /\ indexBased.pc = "returned") =>
         /\ indexBased.result = result
         /\ indexBased.dialogValues = dialogValues

\* -------------------------------------------------------------------- C39
\* C39: whenever a dialog is shown, the inputs named by the records of
\* takenSteps stand in the list in the order of the records, from the bottom
\* of the stack to its top, and all of them before the input that is shown;
\* the walk back of handleGoingBack therefore finds the input of the popped
\* record and never leaves the list at its front.
C39_StackBeforeCursor ==
  /\ \A j \in 1..Len(shown) :
       \A a \in 1..Len(shown[j].steps) :
         /\ \E i \in 1..N : inputs[i].name = shown[j].steps[a].name
         /\ IndexOf(shown[j].steps[a].name) < shown[j].index
         /\ a < Len(shown[j].steps) =>
              IndexOf(shown[j].steps[a].name) < IndexOf(shown[j].steps[a + 1].name)
  /\ pc # "threw"
  /\ node >= 1

\* a dialog was shown with two records on the stack, the user went back
\* twice and the walk back ended at the first input
C39_Witness ==
  /\ Len(shown) = 5
  /\ Len(shown[3].steps) = 2
  /\ outcomes[3] = InputActionBACK
  /\ outcomes[4] = InputActionBACK
  /\ shown[5].index = 1
  /\ shown[3].index = 3
====
